---- MODULE Spec2Model ----
(***************************************************************************)
(* Model of the weather MCP server: the WeatherService client              *)
(* (src/src/weather_service.py), the stdio JSON-RPC server with its HTTP   *)
(* backend (src/mcp_server.py, src/weather_api.py) and the HTTP JSON-RPC   *)
(* endpoint POST /mcp (src/mcp_server_http.py).                            *)
(*                                                                         *)
(* Every action is one complete call of a handler.  The state holds the    *)
(* call that was made last: its input (req), its result (res), the         *)
(* outbound HTTP requests it issued (calls), and the stdio loop's          *)
(* state (running).                                                       *)
(***************************************************************************)
EXTENDS Integers, Sequences, FiniteSets, TLC

VARIABLES op, req, res, calls, running, message_id, pc, backend_state

vars == <<op, req, res, calls, running, message_id, pc, backend_state>>

(***************************************************************************)
(* Bounds of the model.                                                    *)
(***************************************************************************)
MaxId == 2

(***************************************************************************)
(* Python / JSON values.  Every value is a record tagged by t; a key       *)
(* that a dict does not hold is Absent, a JSON null is None.               *)
(***************************************************************************)
Absent == [t |-> "absent"]
None == [t |-> "none"]
Num(n) == [t |-> "num", n |-> n]
Str(s) == [t |-> "str", s |-> s]

IsNone(v) == v.t = "none"
IsDict(v) == v.t = "obj"

\* dict.get(key): the value, or None when the key is absent
Get(v) == IF v.t = "absent" THEN None ELSE v
\* dict.get(key, default)
GetDefault(v, default) == IF v.t = "absent" THEN default ELSE v
\* key in dict
HasKey(v) == v.t # "absent"
\* truthiness of a value
Truthy(v) ==
    CASE v.t = "none" -> FALSE
      [] v.t = "absent" -> FALSE
      [] v.t = "num" -> v.n # 0
      [] v.t = "str" -> v.s # ""
      [] v.t = "bool" -> v.b
      [] OTHER -> TRUE

\* An exception: its class and the tokens of str(e)
Exc(type, text) == [type |-> type, text |-> text]
NoExc == [type |-> "none", text |-> <<>>]
Raised(e) == e.type # "none"

\* requests.RequestException and its subclasses
RequestExceptions == {"ConnectionError", "Timeout", "HTTPError"}

\* a message (a sequence of tokens) contains the token
Contains(msg, tok) == \E i \in DOMAIN msg : msg[i] = tok

(***************************************************************************)
(* Coordinates.                                                            *)
(***************************************************************************)
LatMax == 90
LonMax == 180

LatValues == {-(LatMax + 1), -LatMax, 45, LatMax, LatMax + 1}
LonValues == {-(LonMax + 1), -LonMax, 0, LonMax, LonMax + 1}

LatInRange(lat) == -LatMax <= lat /\ lat <= LatMax
LonInRange(lon) == -LonMax <= lon /\ lon <= LonMax

(***************************************************************************)
(* The weather provider (OpenWeatherMap One Call API), an external         *)
(* service: the outcome of one GET.                                        *)
(***************************************************************************)
\* "mock401" is the response of test_api_key_error: status_code 401 and a
\* raise_for_status that raises a plain Exception
ProviderOutcomes == {"ok", "http401", "mock401", "http404", "http500", "timeout"}

\* The provider's JSON body for a request that succeeds
ProviderBody(lat, lon, exclude) ==
    [t |-> "obj", lat |-> lat, lon |-> lon, exclude |-> exclude]

\* One outbound request to the provider, as recorded in calls
ProviderCall(lat, lon, units, lang, exclude) ==
    [to |-> "provider", lat |-> lat, lon |-> lon, units |-> units,
     lang |-> lang, exclude |-> exclude]

(***************************************************************************)
(* WeatherService (src/src/weather_service.py).  A call returns            *)
(* [exc, ret, calls]: the exception raised (or NoExc), the value returned  *)
(* and the outbound requests issued.                                       *)
(***************************************************************************)
Units == {"metric", "imperial"}

\* requests.get + raise_for_status + the except clauses of the service
ServiceFetch(lat, lon, units, lang, exclude, outcome) ==
    LET call == ProviderCall(lat, lon, units, lang, exclude) IN
    CASE outcome = "ok" ->
           [exc |-> NoExc, ret |-> ProviderBody(lat, lon, exclude),
            calls |-> <<call>>]
      [] outcome = "http401" ->
           [exc |-> Exc("ValueError", <<Str("Invalid API key")>>),
            ret |-> None, calls |-> <<call>>]
      [] outcome = "mock401" ->
           [exc |-> Exc("Exception", <<Str("401 Unauthorized")>>),
            ret |-> None, calls |-> <<call>>]
      [] outcome = "http404" ->
           [exc |-> Exc("ValueError", <<Str("Location not found")>>),
            ret |-> None, calls |-> <<call>>]
      [] outcome = "http500" ->
           [exc |-> Exc("HTTPError", <<Str("500 Server Error")>>),
            ret |-> None, calls |-> <<call>>]
      [] OTHER ->
           [exc |-> Exc("Timeout", <<Str("Read timed out")>>),
            ret |-> None, calls |-> <<call>>]

\* ValidateCoordinates without the longitude check
ValidateCoordinatesLatOnly(lat, lon) ==
    IF ~LatInRange(lat)
    THEN Exc("ValueError", <<Str("Invalid latitude: "), Num(lat),
                             Str(". Must be between -90 and 90.")>>)
    ELSE NoExc

\* the coordinate validation shared by get_current_weather and get_forecast
ValidateCoordinates(lat, lon) ==
    IF ~LatInRange(lat)
    THEN Exc("ValueError", <<Str("Invalid latitude: "), Num(lat),
                             Str(". Must be between -90 and 90.")>>)
    ELSE IF ~LonInRange(lon)
    THEN Exc("ValueError", <<Str("Invalid longitude: "), Num(lon),
                             Str(". Must be between -180 and 180.")>>)
    ELSE NoExc

ServiceGetCurrentWeather(lat, lon, units, lang, outcome) ==
    LET bad == ValidateCoordinates(lat, lon) IN
    IF Raised(bad)
    THEN [exc |-> bad, ret |-> None, calls |-> <<>>]
    ELSE ServiceFetch(lat, lon, units, lang, "minutely,hourly,daily,alerts",
                      outcome)

ServiceGetForecast(lat, lon, units, lang, outcome) ==
    LET bad == ValidateCoordinates(lat, lon) IN
    IF Raised(bad)
    THEN [exc |-> bad, ret |-> None, calls |-> <<>>]
    ELSE ServiceFetch(lat, lon, units, lang, "", outcome)

(***************************************************************************)
(* The HTTP backend of the stdio server: GET /weather and GET /forecast    *)
(* of src/mcp_server.py over the OpenWeatherMapAPI client of               *)
(* src/weather_api.py.                                                     *)
(***************************************************************************)

\* The environment of one backend request: whether the backend accepts the
\* connection, whether the module's weather_client was constructed, the
\* provider's outcome, and whether the body of a provider that answers
\* holds the keys the request asked for ("asked") or holds 'hourly' and
\* 'daily' exactly when the request excluded them ("other").
BackendEnvs ==
    {[backend |-> "down", client |-> TRUE, provider |-> "ok", keys |-> "asked"],
     [backend |-> "up", client |-> FALSE, provider |-> "ok", keys |-> "asked"],
     [backend |-> "up", client |-> TRUE, provider |-> "ok", keys |-> "other"]}
    \cup {[backend |-> "up", client |-> TRUE, provider |-> p,
            keys |-> "asked"] : p \in {"ok", "http401", "timeout"}}

NoEnv == [backend |-> "up", client |-> TRUE, provider |-> "ok", keys |-> "asked"]

\* the keys a provider body lacks when it answers with the other set
OtherKeys(exclude) == IF exclude = "" THEN "hourly,daily" ELSE ""

\* An HTTP response of the backend, and the provider requests made for it
HttpResponse(status, body, pcalls) ==
    [status |-> status, body |-> body, calls |-> pcalls]

\* ApiFetch issuing its GET a second time when the first one fails
ApiFetchRetry(lat, lon, exclude, outcome, keys) ==
    LET call == ProviderCall(lat, lon, "metric", "", exclude) IN
    IF outcome = "ok"
    THEN [exc |-> NoExc,
          ret |-> ProviderBody(lat, lon,
                               IF keys = "asked" THEN exclude
                               ELSE OtherKeys(exclude)),
          calls |-> <<call>>]
    ELSE [exc |-> Exc("WeatherAPIError",
                      <<Str("Failed to fetch data: "), Str(outcome)>>),
          ret |-> None, calls |-> <<call, call>>]

\* OpenWeatherMapAPI.get_current_weather / get_forecast: one GET, every
\* failure re-raised as WeatherAPIError
ApiFetch(lat, lon, exclude, outcome, keys) ==
    LET call == ProviderCall(lat, lon, "metric", "", exclude) IN
    IF outcome = "ok"
    THEN [exc |-> NoExc,
          ret |-> ProviderBody(lat, lon,
                               IF keys = "asked" THEN exclude
                               ELSE OtherKeys(exclude)),
          calls |-> <<call>>]
    ELSE [exc |-> Exc("WeatherAPIError",
                      <<Str("Failed to fetch data: "), Str(outcome)>>),
          ret |-> None, calls |-> <<call>>]

\* OpenWeatherMapAPI.format_weather_data / format_forecast_data applied to
\* the provider's body
ApiFormat(kind, raw) == [t |-> "obj", format |-> kind, raw |-> raw]

\* QueryValid without the range constraints
QueryValidNoRange(lat, lon) == lat.t = "num" /\ lon.t = "num"

\* the Query(..., ge=, le=) declarations of the lat and lon parameters
QueryValid(lat, lon) ==
    /\ lat.t = "num" /\ -LatMax <= lat.n /\ lat.n <= LatMax
    /\ lon.t = "num" /\ -LonMax <= lon.n /\ lon.n <= LonMax

\* BackendEndpoint choosing the formatter by the keys of the provider's body
BackendEndpointByContent(endpoint, lat, lon, env) ==
    IF ~QueryValid(lat, lon)
    THEN HttpResponse(422, None, <<>>)
    ELSE IF ~env.client
    THEN HttpResponse(500, None, <<>>)
    ELSE LET exclude == IF endpoint = "/weather" THEN "hourly,daily" ELSE ""
             r == ApiFetch(lat.n, lon.n, exclude, env.provider, env.keys)
         IN  IF Raised(r.exc)
             THEN HttpResponse(500, None, r.calls)
             ELSE HttpResponse(200,
                    [t |-> "obj", status |-> "success",
                     data |-> ApiFormat(IF r.ret.exclude = ""
                                        THEN "/forecast" ELSE "/weather",
                                        r.ret)],
                    r.calls)

\* get_weather / get_forecast of the backend: 422 from the parameter
\* validation, 500 without a client or when the provider call fails, else
\* 200 with the formatted data
BackendEndpoint(endpoint, lat, lon, env) ==
    IF ~QueryValid(lat, lon)
    THEN HttpResponse(422, None, <<>>)
    ELSE IF ~env.client
    THEN HttpResponse(500, None, <<>>)
    ELSE LET exclude == IF endpoint = "/weather" THEN "hourly,daily" ELSE ""
             r == ApiFetch(lat.n, lon.n, exclude, env.provider, env.keys)
         IN  IF Raised(r.exc)
             THEN HttpResponse(500, None, r.calls)
             ELSE HttpResponse(200,
                    [t |-> "obj", status |-> "success",
                     data |-> ApiFormat(endpoint, r.ret)],
                    r.calls)

(***************************************************************************)
(* The stdio JSON-RPC server (src/mcp_server.py).                          *)
(***************************************************************************)
ParseErrorCode == -32700
MethodNotFound == -32601
InternalError == -32603

\* Response announcing another protocol version
ResponseVersionless(id, result, error) ==
    [t |-> "obj", jsonrpc |-> "1.0", id |-> id, result |-> result,
     error |-> error]

\* A JSON-RPC response; an absent member is Absent
Response(id, result, error) ==
    [t |-> "obj", jsonrpc |-> "2.0", id |-> id, result |-> result,
     error |-> error]
ErrorObj(code, message) == [t |-> "obj", code |-> code, message |-> message]

\* json.dumps of a value
Dumps(v) == [t |-> "json", of |-> v]

\* one loopback request to the backend, as recorded in calls
BackendCall(endpoint, lat, lon) ==
    [to |-> "backend", endpoint |-> endpoint, lat |-> lat, lon |-> lon]

\* CallHttpEndpoint returning the "data" member of the backend's body
CallHttpEndpointUnwrap(endpoint, lat, lon, env) ==
    LET call == BackendCall(endpoint, lat, lon) IN
    IF env.backend = "down"
    THEN [exc |-> Exc("ConnectionError", <<Str("Connection refused")>>),
          ret |-> None, calls |-> <<call>>]
    ELSE LET r == BackendEndpoint(endpoint, lat, lon, env) IN
         IF r.status # 200
         THEN [exc |-> Exc("HTTPError", <<Num(r.status), Str(" Error for url")>>),
               ret |-> None, calls |-> <<call>> \o r.calls]
         ELSE [exc |-> NoExc, ret |-> r.body.data, calls |-> <<call>> \o r.calls]

\* call_http_endpoint: requests.get to the backend, raise_for_status, json
CallHttpEndpoint(endpoint, lat, lon, env) ==
    LET call == BackendCall(endpoint, lat, lon) IN
    IF env.backend = "down"
    THEN [exc |-> Exc("ConnectionError", <<Str("Connection refused")>>),
          ret |-> None, calls |-> <<call>>]
    ELSE LET r == BackendEndpoint(endpoint, lat, lon, env) IN
         IF r.status # 200
         THEN [exc |-> Exc("HTTPError", <<Num(r.status), Str(" Error for url")>>),
               ret |-> None, calls |-> <<call>> \o r.calls]
         ELSE [exc |-> NoExc, ret |-> r.body, calls |-> <<call>> \o r.calls]

\* ToolCallError that loses the request id
ToolCallErrorNullId(msg_id, e) ==
    Response(None, Absent,
             ErrorObj(InternalError,
                      <<Str("Tool execution failed: "), Str(e.type)>>))

\* the except clauses of handle_tool_call: the -32603 response for e
ToolCallError(msg_id, e) ==
    IF e.type \in RequestExceptions
    THEN Response(msg_id, Absent,
                  ErrorObj(InternalError,
                           <<Str("HTTP request failed: "), Str(e.type)>>))
    ELSE Response(msg_id, Absent,
                  ErrorObj(InternalError,
                           <<Str("Tool execution failed: "), Str(e.type)>>))

\* HandleToolCall testing the tool name before the coordinates
HandleToolCallNameFirst(msg_id, params, env) ==
    IF ~IsDict(params)
    THEN \* params.get outside the try block
         [exc |-> Exc("AttributeError", <<Str("object has no attribute 'get'")>>),
          ret |-> None, calls |-> <<>>]
    ELSE
    LET tool_name == Get(params.name)
        tool_args == GetDefault(params.arguments,
                                [t |-> "obj", latitude |-> Absent,
                                 longitude |-> Absent])
    IN
    IF ~IsDict(tool_args)
    THEN [exc |-> NoExc, calls |-> <<>>,
          ret |-> ToolCallError(msg_id,
                    Exc("AttributeError",
                        <<Str("object has no attribute 'get'")>>))]
    ELSE
    LET lat == Get(tool_args.latitude)
        lon == Get(tool_args.longitude)
    IN
    IF tool_name \notin {Str("get_weather"), Str("get_forecast")}
    THEN [exc |-> NoExc, calls |-> <<>>,
          ret |-> Response(msg_id, Absent,
                    ErrorObj(MethodNotFound,
                             <<Str("Unknown tool: "), tool_name>>))]
    ELSE IF IsNone(lat) \/ IsNone(lon)
    THEN [exc |-> NoExc, calls |-> <<>>,
          ret |-> ToolCallError(msg_id,
                    Exc("ValueError",
                        <<Str("latitude and longitude are required")>>))]
    ELSE IF tool_name \in {Str("get_weather"), Str("get_forecast")}
    THEN LET endpoint == IF tool_name = Str("get_weather")
                         THEN "/weather" ELSE "/forecast"
             r == CallHttpEndpoint(endpoint, lat, lon, env)
         IN  IF Raised(r.exc)
             THEN [exc |-> NoExc, calls |-> r.calls,
                   ret |-> ToolCallError(msg_id, r.exc)]
             ELSE [exc |-> NoExc, calls |-> r.calls,
                   ret |-> Response(msg_id,
                             [t |-> "obj",
                              content |-> <<[type |-> "text",
                                             text |-> Dumps(r.ret)]>>],
                             Absent)]
    ELSE [exc |-> NoExc, calls |-> <<>>,
          ret |-> Response(msg_id, Absent,
                    ErrorObj(MethodNotFound,
                             <<Str("Unknown tool: "), tool_name>>))]

\* handle_tool_call: [exc, ret, calls]
HandleToolCall(msg_id, params, env) ==
    IF ~IsDict(params)
    THEN \* params.get outside the try block
         [exc |-> Exc("AttributeError", <<Str("object has no attribute 'get'")>>),
          ret |-> None, calls |-> <<>>]
    ELSE
    LET tool_name == Get(params.name)
        tool_args == GetDefault(params.arguments,
                                [t |-> "obj", latitude |-> Absent,
                                 longitude |-> Absent])
    IN
    IF ~IsDict(tool_args)
    THEN [exc |-> NoExc, calls |-> <<>>,
          ret |-> ToolCallError(msg_id,
                    Exc("AttributeError",
                        <<Str("object has no attribute 'get'")>>))]
    ELSE
    LET lat == Get(tool_args.latitude)
        lon == Get(tool_args.longitude)
    IN
    IF IsNone(lat) \/ IsNone(lon)
    THEN [exc |-> NoExc, calls |-> <<>>,
          ret |-> ToolCallError(msg_id,
                    Exc("ValueError",
                        <<Str("latitude and longitude are required")>>))]
    ELSE IF tool_name \in {Str("get_weather"), Str("get_forecast")}
    THEN LET endpoint == IF tool_name = Str("get_weather")
                         THEN "/weather" ELSE "/forecast"
             r == CallHttpEndpoint(endpoint, lat, lon, env)
         IN  IF Raised(r.exc)
             THEN [exc |-> NoExc, calls |-> r.calls,
                   ret |-> ToolCallError(msg_id, r.exc)]
             ELSE [exc |-> NoExc, calls |-> r.calls,
                   ret |-> Response(msg_id,
                             [t |-> "obj",
                              content |-> <<[type |-> "text",
                                             text |-> Dumps(r.ret)]>>],
                             Absent)]
    ELSE [exc |-> NoExc, calls |-> <<>>,
          ret |-> Response(msg_id, Absent,
                    ErrorObj(MethodNotFound,
                             <<Str("Unknown tool: "), tool_name>>))]

\* the result of initialize
InitializeResult ==
    [t |-> "obj", protocolVersion |-> "2024-11-05",
     capabilities |-> [tools |-> <<>>],
     serverInfo |-> [name |-> "weather-mcp-server", version |-> "1.0.0"]]

\* the schema of one tool of tools/list
ToolSchema(name) ==
    [name |-> name, required |-> <<"latitude", "longitude">>,
     latitude |-> [minimum |-> -LatMax, maximum |-> LatMax],
     longitude |-> [minimum |-> -LonMax, maximum |-> LonMax]]

\* the result of tools/list
ToolsListResult ==
    [t |-> "obj",
     tools |-> <<ToolSchema("get_weather"), ToolSchema("get_forecast")>>]

\* UnknownMethod answering with the internal-error code
UnknownMethodAsInternal(msg_id, method) ==
    IF IsNone(msg_id)
    THEN None
    ELSE Response(msg_id, Absent,
                  ErrorObj(InternalError,
                           <<Str("Method not found: "), method>>))

\* the tail of handle_mcp_message, for a method that is none of initialize,
\* tools/list and tools/call: nothing for a notification, else -32601
UnknownMethod(msg_id, method) ==
    IF IsNone(msg_id)
    THEN None
    ELSE Response(msg_id, Absent,
                  ErrorObj(MethodNotFound,
                           <<Str("Method not found: "), method>>))

\* handle_mcp_message: [exc, ret, calls]; ret is the response, or None
HandleMcpMessage(message, env) ==
    IF ~IsDict(message)
    THEN [exc |-> Exc("AttributeError", <<Str("object has no attribute 'get'")>>),
          ret |-> None, calls |-> <<>>]
    ELSE
    LET msg_id == Get(message.id)
        method == Get(message.method)
        params == GetDefault(message.params,
                             [t |-> "obj", name |-> Absent,
                              arguments |-> Absent])
    IN
    IF method = Str("initialize")
    THEN [exc |-> NoExc, calls |-> <<>>,
          ret |-> Response(msg_id, InitializeResult, Absent)]
    ELSE IF method = Str("tools/list")
    THEN [exc |-> NoExc, calls |-> <<>>,
          ret |-> Response(msg_id, ToolsListResult, Absent)]
    ELSE IF method = Str("tools/call")
    THEN HandleToolCall(msg_id, params, env)
    ELSE [exc |-> NoExc, calls |-> <<>>, ret |-> UnknownMethod(msg_id, method)]

\* ParseErrorResponse with the internal-error code
ParseErrorAsInternal ==
    Response(None, Absent, ErrorObj(InternalError, <<Str("Parse error")>>))

\* the response printed by the except json.JSONDecodeError clause
ParseErrorResponse ==
    Response(None, Absent, ErrorObj(ParseErrorCode, <<Str("Parse error")>>))

\* the local variable message of run_mcp_stdio_server before its first
\* assignment
Unbound == [t |-> "unbound"]

\* message.get("id") if isinstance(message, dict) else None
MessageId(parsed) == IF IsDict(parsed) THEN Get(parsed.id) ELSE None

\* json.loads exceeding the interpreter's recursion limit on a deeply nested
\* line
RecursionError ==
    Exc("RecursionError",
        <<Str("maximum recursion depth exceeded while decoding a JSON array")>>)

\* One iteration of the read loop of run_mcp_stdio_server on a line that is
\* not EOF.  The loop's local variable message keeps its value from one
\* iteration to the next; all the loop ever reads of an earlier value is
\* MessageId of it, so the iteration takes, as previous, MessageId of the
\* value message has when the line is read (Unbound before the first
\* assignment).  It returns [out, calls, alive, message_id]: out the lines
\* printed to stdout, alive whether the loop goes on to the next line,
\* message_id what previous is for the next iteration.  An exception of
\* json.loads other than JSONDecodeError reaches the except Exception
\* clause with message not assigned by this iteration; reading it unbound
\* raises NameError inside the handler, which ends the loop.
StdioIteration(line, env, previous) ==
    IF line.kind = "blank"
    THEN [out |-> <<>>, calls |-> <<>>, alive |-> TRUE,
          message_id |-> previous]
    ELSE IF line.kind = "garbage"
    THEN [out |-> <<ParseErrorResponse>>, calls |-> <<>>, alive |-> TRUE,
          message_id |-> previous]
    ELSE IF line.kind = "toodeep"
    THEN IF previous = Unbound
         THEN [out |-> <<>>, calls |-> <<>>, alive |-> FALSE,
               message_id |-> previous]
         ELSE [out |-> <<Response(previous, Absent,
                           ErrorObj(InternalError,
                                    <<Str("Internal error: ")>>
                                    \o RecursionError.text))>>,
               calls |-> <<>>, alive |-> TRUE, message_id |-> previous]
    ELSE LET parsed == line.value
             r == HandleMcpMessage(parsed, env)
         IN  IF Raised(r.exc)
             THEN [out |-> <<Response(MessageId(parsed), Absent,
                               ErrorObj(InternalError,
                                        <<Str("Internal error: ")>> \o r.exc.text))>>,
                   calls |-> r.calls, alive |-> TRUE,
                   message_id |-> MessageId(parsed)]
             ELSE IF IsNone(r.ret)
             THEN [out |-> <<>>, calls |-> r.calls, alive |-> TRUE,
                   message_id |-> MessageId(parsed)]
             ELSE [out |-> <<r.ret>>, calls |-> r.calls, alive |-> TRUE,
                   message_id |-> MessageId(parsed)]

(***************************************************************************)
(* The lines the stdio server may read.                                    *)
(***************************************************************************)
Ids == {None} \cup {Num(i) : i \in 1..MaxId}

Methods == {"initialize", "tools/list", "tools/call", "resources/list",
            "ping"}

ToolNames == {Absent, Str("get_weather"), Str("get_forecast"), Str("bogus")}

NonDicts == {None, Str("x")}

StdioLatitudes == {Absent} \cup {Num(n) : n \in LatValues \ {45}}
StdioLongitudes == {None} \cup {Num(n) : n \in LonValues \ {-(LonMax + 1), 0}}

StdioArguments ==
    {Absent} \cup NonDicts
    \cup {[t |-> "obj", latitude |-> lat, longitude |-> lon] :
            lat \in StdioLatitudes, lon \in StdioLongitudes}

StdioCallParams ==
    {Absent} \cup NonDicts
    \cup {[t |-> "obj", name |-> n, arguments |-> a] :
            n \in ToolNames, a \in StdioArguments}

\* params of the requests that are not tools/call
PlainParams ==
    {Absent, [t |-> "obj", name |-> Str("get_weather"), arguments |-> Absent]}

Message(id, method, params) ==
    [t |-> "obj", id |-> id, method |-> Str(method), params |-> params]

StdioMessages ==
    {Message(id, m, p) :
        id \in Ids \cup {Absent}, m \in Methods \ {"tools/call"},
        p \in PlainParams}
    \cup {Message(id, "tools/call", p) :
            id \in Ids \cup {Absent}, p \in StdioCallParams}

StdioLines ==
    {[kind |-> "blank"], [kind |-> "garbage"], [kind |-> "toodeep"]}
    \cup {[kind |-> "json", value |-> v] : v \in {Num(42)} \cup StdioMessages}

\* the message makes handle_tool_call reach call_http_endpoint
ReachesBackend(line) ==
    /\ line.kind = "json"
    /\ IsDict(line.value)
    /\ line.value.method = Str("tools/call")
    /\ IsDict(line.value.params)
    /\ line.value.params.name \in {Str("get_weather"), Str("get_forecast")}
    /\ IsDict(line.value.params.arguments)
    /\ line.value.params.arguments.latitude.t = "num"
    /\ line.value.params.arguments.longitude.t = "num"

EnvsFor(line) == IF ReachesBackend(line) THEN BackendEnvs ELSE {NoEnv}

\* the environments of a line read while the background thread is in the
\* given state: before uvicorn accepts connections a request to the backend
\* is refused
EnvsAt(line, state) ==
    IF state = "starting"
    THEN {e \in EnvsFor(line) : ReachesBackend(line) => e.backend = "down"}
    ELSE EnvsFor(line)

(***************************************************************************)
(* The HTTP JSON-RPC endpoint POST /mcp (src/mcp_server_http.py).          *)
(***************************************************************************)

\* The environment of one request: the geocoding service's outcome and the
\* weather provider's outcome.
GeoOutcomes == {"empty", "found", "httpfail"}
GeoFound == [lat |-> 48, lon |-> 16]

HttpEnvs ==
    {[geo |-> g, provider |-> p] :
        g \in GeoOutcomes, p \in {"ok", "http401", "timeout"}}

\* MCPResponse: result and error default to None
McpResponse(id, result, error) ==
    [t |-> "obj", jsonrpc |-> "2.0", id |-> id, result |-> result,
     error |-> error]

\* one request to the geocoding API, as recorded in calls
GeocodeCall(location) == [to |-> "geocode", q |-> location]

\* GeocodeLocation answering an empty result with the coordinates (0, 0)
GeocodeLocationZero(location, outcome) ==
    CASE outcome = "httpfail" ->
           [exc |-> Exc("HTTPStatusError", <<Str("geocoding request failed")>>),
            lat |-> 0, lon |-> 0, calls |-> <<GeocodeCall(location)>>]
      [] outcome = "empty" ->
           [exc |-> NoExc, lat |-> 0, lon |-> 0,
            calls |-> <<GeocodeCall(location)>>]
      [] OTHER ->
           [exc |-> NoExc, lat |-> GeoFound.lat, lon |-> GeoFound.lon,
            calls |-> <<GeocodeCall(location)>>]

\* geocode_location: [exc, lat, lon, calls]
GeocodeLocation(location, outcome) ==
    CASE outcome = "httpfail" ->
           [exc |-> Exc("HTTPStatusError", <<Str("geocoding request failed")>>),
            lat |-> 0, lon |-> 0, calls |-> <<GeocodeCall(location)>>]
      [] outcome = "empty" ->
           [exc |-> Exc("ValueError",
                        <<Str("Location '"), location, Str("' not found")>>),
            lat |-> 0, lon |-> 0, calls |-> <<GeocodeCall(location)>>]
      [] OTHER ->
           [exc |-> NoExc, lat |-> GeoFound.lat, lon |-> GeoFound.lon,
            calls |-> <<GeocodeCall(location)>>]

\* the except Exception clause of mcp_endpoint
McpInternalError(id, e) ==
    McpResponse(id, None,
                ErrorObj(InternalError, <<Str("Internal error: ")>> \o e.text))

\* the tools/list result of POST /mcp
HttpToolsListResult ==
    [t |-> "obj",
     tools |-> <<[name |-> "get_current_weather",
                  properties |-> <<"latitude", "longitude", "location",
                                   "units", "lang">>]>>]

\* the text built from the weather data
FormatText(location_name, weather_data, units) ==
    [t |-> "text", location_name |-> location_name, data |-> weather_data,
     units |-> units]

EmptyArguments ==
    [t |-> "obj", location |-> Absent, latitude |-> Absent,
     longitude |-> Absent, units |-> Absent]

\* ResolveCoordinates preferring supplied coordinates to the location
ResolveCoordinatesPreferGiven(arguments, env) ==
    IF ~IsDict(arguments)
    THEN [exc |-> Exc("TypeError", <<Str("argument is not iterable")>>),
          lat |-> 0, lon |-> 0, calls |-> <<>>]
    ELSE IF arguments.latitude.t = "num" /\ arguments.longitude.t = "num"
    THEN [exc |-> NoExc, lat |-> arguments.latitude.n,
          lon |-> arguments.longitude.n, calls |-> <<>>]
    ELSE IF HasKey(arguments.location) /\ Truthy(arguments.location)
    THEN GeocodeLocation(arguments.location, env.geo)
    ELSE IF HasKey(arguments.latitude) /\ HasKey(arguments.longitude)
    THEN [exc |-> Exc("TypeError",
                      <<Str("float() argument must be a string or a number")>>),
          lat |-> 0, lon |-> 0, calls |-> <<>>]
    ELSE [exc |-> Exc("ValueError",
                      <<Str("Either 'location' or both 'latitude' and 'longitude' must be provided")>>),
          lat |-> 0, lon |-> 0, calls |-> <<>>]

\* the coordinates of a get_current_weather call: [exc, lat, lon, calls]
ResolveCoordinates(arguments, env) ==
    IF ~IsDict(arguments)
    THEN [exc |-> Exc("TypeError", <<Str("argument is not iterable")>>),
          lat |-> 0, lon |-> 0, calls |-> <<>>]
    ELSE IF HasKey(arguments.location) /\ Truthy(arguments.location)
    THEN GeocodeLocation(arguments.location, env.geo)
    ELSE IF HasKey(arguments.latitude) /\ HasKey(arguments.longitude)
    THEN IF arguments.latitude.t = "num" /\ arguments.longitude.t = "num"
         THEN [exc |-> NoExc, lat |-> arguments.latitude.n,
               lon |-> arguments.longitude.n, calls |-> <<>>]
         ELSE [exc |-> Exc("TypeError",
                           <<Str("float() argument must be a string or a number")>>),
               lat |-> 0, lon |-> 0, calls |-> <<>>]
    ELSE [exc |-> Exc("ValueError",
                      <<Str("Either 'location' or both 'latitude' and 'longitude' must be provided")>>),
          lat |-> 0, lon |-> 0, calls |-> <<>>]

\* the get_current_weather branch of tools/call: [ret, calls]
McpGetCurrentWeather(id, arguments, env) ==
    LET c == ResolveCoordinates(arguments, env) IN
    IF Raised(c.exc)
    THEN [ret |-> McpInternalError(id, c.exc), calls |-> c.calls]
    ELSE
    LET units == GetDefault(arguments.units, Str("metric"))
        w == ServiceGetCurrentWeather(c.lat, c.lon, units.s, "en", env.provider)
        location_name ==
            GetDefault(arguments.location,
                       [t |-> "coords", lat |-> c.lat, lon |-> c.lon])
    IN  IF Raised(w.exc)
        THEN [ret |-> McpInternalError(id, w.exc), calls |-> c.calls \o w.calls]
        ELSE [ret |-> McpResponse(id,
                        [t |-> "obj",
                         content |-> <<[type |-> "text",
                                        text |-> FormatText(location_name,
                                                            w.ret, units.s)]>>],
                        None),
              calls |-> c.calls \o w.calls]

\* mcp_endpoint: [ret, calls]
McpEndpoint(request, env) ==
    LET id == request.id
        method == request.method
    IN
    IF method = "tools/list"
    THEN [ret |-> McpResponse(id, HttpToolsListResult, None), calls |-> <<>>]
    ELSE IF method = "tools/call"
    THEN LET tool_name == Get(request.params.name)
             arguments == GetDefault(request.params.arguments, EmptyArguments)
         IN  IF tool_name = Str("get_current_weather")
             THEN McpGetCurrentWeather(id, arguments, env)
             ELSE [ret |-> McpInternalError(id,
                             Exc("ValueError",
                                 <<Str("Unknown tool: "), tool_name>>)),
                   calls |-> <<>>]
    ELSE IF method = "resources/list"
    THEN [ret |-> McpResponse(id, [t |-> "obj", resources |-> <<>>], None),
          calls |-> <<>>]
    ELSE IF method = "prompts/list"
    THEN [ret |-> McpResponse(id, [t |-> "obj", prompts |-> <<>>], None),
          calls |-> <<>>]
    ELSE [ret |-> McpInternalError(id,
                    Exc("ValueError",
                        <<Str("Unknown method: "), Str(method)>>)),
          calls |-> <<>>]

(***************************************************************************)
(* The requests POST /mcp may receive (an MCPRequest: id an int, method a  *)
(* string, params an object).                                              *)
(***************************************************************************)
HttpMethods == Methods \cup {"prompts/list"}

HttpToolNames == {Absent, Str("get_current_weather"), Str("get_weather")}

Locations == {Absent, Str(""), Str("Nowhere12345XYZ"), Str("Vienna")}

HttpArguments ==
    {Absent, None}
    \cup {[t |-> "obj", location |-> l, latitude |-> lat, longitude |-> lon,
           units |-> u] :
            l \in Locations,
            lat \in {Absent, None, Num(-(LatMax + 1)), Num(45)},
            lon \in {Absent, Num(0)},
            u \in {Absent, Str("imperial")}}

NoParams == [t |-> "obj", name |-> Absent, arguments |-> Absent]

HttpRequests ==
    {[id |-> Num(i), method |-> m, params |-> p] :
        i \in 1..MaxId, m \in HttpMethods \ {"tools/call"},
        p \in {NoParams,
               [t |-> "obj", name |-> Str("get_current_weather"),
                arguments |-> Absent]}}
    \cup {[id |-> Num(i), method |-> "tools/call",
           params |-> [t |-> "obj", name |-> n, arguments |-> a]] :
            i \in 1..MaxId, n \in HttpToolNames, a \in HttpArguments}

NoHttpEnv == [geo |-> "found", provider |-> "ok"]

\* the request consults the geocoding service
ReachesGeocoding(request) ==
    /\ request.method = "tools/call"
    /\ request.params.name = Str("get_current_weather")
    /\ IsDict(request.params.arguments)
    /\ Truthy(request.params.arguments.location)

\* the request may reach the weather provider
ReachesProvider(request) ==
    /\ request.method = "tools/call"
    /\ request.params.name = Str("get_current_weather")
    /\ IsDict(request.params.arguments)
    /\ request.params.arguments.latitude.t = "num"
    /\ request.params.arguments.longitude.t = "num"

HttpEnvsFor(request) ==
    IF ReachesGeocoding(request) THEN HttpEnvs
    ELSE IF ReachesProvider(request)
    THEN {e \in HttpEnvs : e.geo = "found"}
    ELSE {NoHttpEnv}

(***************************************************************************)
(* POST /tools/call of src/mcp_server_http.py (a ToolCall: name a string,  *)
(* arguments an object).  A request returns [status, detail, body, calls]. *)
(***************************************************************************)
DirectResponse(status, detail, body, made) ==
    [status |-> status, detail |-> detail, body |-> body, calls |-> made]

\* except Exception -> HTTPException(status_code=500, detail=str(e))
DirectFailure(e, made) == DirectResponse(500, e.text, None, made)

\* direct_tool_call
DirectToolCall(name, arguments, env) ==
    IF name = Str("get_current_weather")
    THEN LET c == ResolveCoordinates(arguments, env) IN
         IF Raised(c.exc)
         THEN DirectFailure(c.exc, c.calls)
         ELSE LET units == GetDefault(arguments.units, Str("metric"))
                  w == ServiceGetCurrentWeather(c.lat, c.lon, units.s, "en",
                                                env.provider)
              IN  IF Raised(w.exc)
                  THEN DirectFailure(w.exc, c.calls \o w.calls)
                  ELSE DirectResponse(200, None,
                                      [t |-> "obj", success |-> TRUE,
                                       data |-> w.ret],
                                      c.calls \o w.calls)
    ELSE \* the HTTPException(400) is raised inside the try block
         DirectFailure(Exc("HTTPException",
                           <<Num(400), Str(": Unknown tool: "), name>>),
                       <<>>)

DirectToolNames == {Str("get_current_weather"), Str("get_weather")}

DirectArguments == {a \in HttpArguments : IsDict(a) /\ a.units = Absent}

\* the environments that matter to a ToolCall
DirectEnvsFor(name, arguments) ==
    HttpEnvsFor([method |-> "tools/call",
                 params |-> [name |-> name, arguments |-> arguments]])

(***************************************************************************)
(* The formatters: OpenWeatherMapAPI.format_weather_data and               *)
(* format_forecast_data (src/weather_api.py), WeatherService.              *)
(* format_weather_response and format_forecast_data                        *)
(* (src/src/weather_service.py).  A call returns [exc, ret].  Of the       *)
(* scalar provider fields, which the code all copies with one .get each,   *)
(* the model keeps dt, temp, feels_like, humidity, pop and rain.           *)
(***************************************************************************)
DailyCap == 8
HourlyCap == 48

MaxDaily == 9
MaxHourly == 49

Min(a, b) == IF a <= b THEN a ELSE b

\* a JSON array
List(items) == [t |-> "list", items |-> items]
IsList(v) == v.t = "list"

\* s[:cap]
Prefix(s, cap) == SubSeq(s, 1, Min(Len(s), cap))

\* an element of a provider "weather" list; {} is EmptyWeather
WeatherEntry(main, description) ==
    [t |-> "obj", main |-> main, description |-> description]
EmptyWeather == WeatherEntry(Absent, Absent)

\* the {} default of .get("current", {})
EmptyCurrent ==
    [t |-> "obj", dt |-> Absent, temp |-> Absent, feels_like |-> Absent,
     humidity |-> Absent, weather |-> Absent]

\* the {} default of day.get("temp", {})
EmptyTemp ==
    [t |-> "obj", min |-> Absent, max |-> Absent, day |-> Absent,
     night |-> Absent]

AttributeError == Exc("AttributeError", <<Str("object has no attribute 'get'")>>)
NotSubscriptable == Exc("TypeError", <<Str("'NoneType' object is not subscriptable")>>)
NotIterable == Exc("TypeError", <<Str("'NoneType' object is not iterable")>>)

Returned(v) == [exc |-> NoExc, ret |-> v]
Failed(e) == [exc |-> e, ret |-> None]

\* ApiWeatherInfo taking the last element of the list
ApiWeatherInfoLast(weather) ==
    LET weather_list == GetDefault(weather, List(<<EmptyWeather>>)) IN
    IF IsList(weather_list) /\ Len(weather_list.items) > 0
    THEN weather_list.items[Len(weather_list.items)]
    ELSE EmptyWeather

\* weather_list = x.get("weather", [{}]);
\* weather_info = weather_list[0] if weather_list else {}
ApiWeatherInfo(weather) ==
    LET weather_list == GetDefault(weather, List(<<EmptyWeather>>)) IN
    IF IsList(weather_list) /\ Len(weather_list.items) > 0
    THEN weather_list.items[1]
    ELSE EmptyWeather

\* OpenWeatherMapAPI.format_weather_data
ApiFormatWeatherData(raw) ==
    LET current == GetDefault(raw.current, EmptyCurrent) IN
    IF ~IsDict(current)
    THEN Failed(AttributeError)
    ELSE LET weather_info == ApiWeatherInfo(current.weather) IN
         Returned([t |-> "obj",
                   temperature |-> Get(current.temp),
                   feels_like |-> Get(current.feels_like),
                   humidity |-> Get(current.humidity),
                   weather |-> GetDefault(weather_info.description, Str("N/A")),
                   weather_main |-> GetDefault(weather_info.main, Str("N/A")),
                   timezone |-> Get(raw.timezone),
                   lat |-> Get(raw.lat),
                   lon |-> Get(raw.lon)])

\* one element of hourly_formatted
ApiFormatHour(hour) ==
    LET weather_info == ApiWeatherInfo(hour.weather) IN
    [t |-> "obj", dt |-> Get(hour.dt), temp |-> Get(hour.temp),
     weather |-> GetDefault(weather_info.description, Str("N/A")),
     weather_main |-> GetDefault(weather_info.main, Str("N/A")),
     pop |-> Get(hour.pop)]

\* the day makes temp.get raise
ApiDayRaises(day) == ~IsDict(GetDefault(day.temp, EmptyTemp))

\* one element of daily_formatted
ApiFormatDay(day) ==
    LET weather_info == ApiWeatherInfo(day.weather)
        temp == GetDefault(day.temp, EmptyTemp)
    IN  [t |-> "obj", dt |-> Get(day.dt),
         temp_min |-> Get(temp.min), temp_max |-> Get(temp.max),
         temp_day |-> Get(temp.day), temp_night |-> Get(temp.night),
         humidity |-> Get(day.humidity),
         weather |-> GetDefault(weather_info.description, Str("N/A")),
         weather_main |-> GetDefault(weather_info.main, Str("N/A")),
         pop |-> Get(day.pop)]

\* ApiHourlyPrefix keeping the last HourlyCap entries
ApiHourlyWindow(items) ==
    SubSeq(items, Len(items) - Min(Len(items), HourlyCap) + 1, Len(items))

\* hourly_list[:48]
ApiHourlyPrefix(items) == Prefix(items, HourlyCap)

\* daily_list[:8]
ApiDailyPrefix(items) == Prefix(items, DailyCap)

\* OpenWeatherMapAPI.format_forecast_data
ApiFormatForecastData(raw) ==
    LET current_formatted == ApiFormatWeatherData(raw)
        hourly_list == GetDefault(raw.hourly, List(<<>>))
        daily_list == GetDefault(raw.daily, List(<<>>))
    IN
    IF Raised(current_formatted.exc)
    THEN current_formatted
    ELSE IF ~IsList(hourly_list)
    THEN Failed(NotSubscriptable)
    ELSE IF ~IsList(daily_list)
    THEN Failed(NotSubscriptable)
    ELSE
    LET hours == ApiHourlyPrefix(hourly_list.items)
        days == ApiDailyPrefix(daily_list.items)
    IN  IF \E i \in DOMAIN days : ApiDayRaises(days[i])
        THEN Failed(AttributeError)
        ELSE Returned([t |-> "obj",
                       current |-> current_formatted.ret,
                       hourly |-> [i \in DOMAIN hours |-> ApiFormatHour(hours[i])],
                       daily |-> [i \in DOMAIN days |-> ApiFormatDay(days[i])],
                       timezone |-> Get(raw.timezone)])

\* x.get("weather", [{}])[0] if x.get("weather") else {}
SvcWeather(weather) ==
    IF IsList(weather) /\ Len(weather.items) > 0
    THEN weather.items[1]
    ELSE EmptyWeather

\* SvcLocation with latitude and longitude exchanged
SvcLocationSwapped(raw) ==
    [latitude |-> Get(raw.lon), longitude |-> Get(raw.lat),
     timezone |-> Get(raw.timezone)]

\* the "location" member of the formatted record
SvcLocation(raw) ==
    [latitude |-> Get(raw.lat), longitude |-> Get(raw.lon),
     timezone |-> Get(raw.timezone)]

\* the "current" member of the formatted record
SvcCurrent(current) ==
    [timestamp |-> Get(current.dt), temperature |-> Get(current.temp),
     feels_like |-> Get(current.feels_like),
     humidity |-> Get(current.humidity),
     weather |-> SvcWeather(current.weather)]

\* WeatherService.format_weather_response
SvcFormatWeatherResponse(raw) ==
    LET current == GetDefault(raw.current, EmptyCurrent) IN
    IF ~IsDict(current)
    THEN Failed(AttributeError)
    ELSE Returned([t |-> "obj", location |-> SvcLocation(raw),
                   current |-> SvcCurrent(current)])

\* the day makes day.get("temp", {}).get raise
SvcDayRaises(day) == ~IsDict(GetDefault(day.temp, EmptyTemp))

\* one element of the "daily" list of the service's forecast
SvcFormatDay(day) ==
    LET temp == GetDefault(day.temp, EmptyTemp) IN
    [t |-> "obj", dt |-> Get(day.dt),
     temp |-> [day |-> Get(temp.day), min |-> Get(temp.min),
               max |-> Get(temp.max), night |-> Get(temp.night)],
     humidity |-> Get(day.humidity),
     rain |-> GetDefault(day.rain, Num(0)),
     weather |-> SvcWeather(day.weather)]

\* one element of the "hourly" list of the service's forecast
SvcFormatHour(hour) ==
    [t |-> "obj", dt |-> Get(hour.dt), temperature |-> Get(hour.temp),
     weather |-> SvcWeather(hour.weather)]

\* WeatherService.format_forecast_data
SvcFormatForecastData(raw) ==
    LET current == GetDefault(raw.current, EmptyCurrent)
        daily == GetDefault(raw.daily, List(<<>>))
        hourly == GetDefault(raw.hourly, List(<<>>))
    IN
    IF ~IsDict(current)
    THEN Failed(AttributeError)
    ELSE IF ~IsList(daily)
    THEN Failed(NotIterable)
    ELSE IF \E i \in DOMAIN daily.items : SvcDayRaises(daily.items[i])
    THEN Failed(AttributeError)
    ELSE IF ~IsList(hourly)
    THEN Failed(NotIterable)
    ELSE Returned([t |-> "obj", location |-> SvcLocation(raw),
                   current |-> SvcCurrent(current),
                   daily |-> [i \in DOMAIN daily.items |->
                                SvcFormatDay(daily.items[i])],
                   hourly |-> [i \in DOMAIN hourly.items |->
                                 SvcFormatHour(hourly.items[i])]])

(***************************************************************************)
(* The raw provider objects the formatters are applied to.                 *)
(***************************************************************************)
Clear == WeatherEntry(Str("Clear"), Str("clear sky"))
Rain == WeatherEntry(Str("Rain"), Str("light rain"))

WeatherLists == {Absent, None, List(<<>>), List(<<Clear>>), List(<<Rain, Clear>>)}

RawCurrents ==
    {Absent, None}
    \cup {[t |-> "obj", dt |-> Num(1699036800), temp |-> Num(15),
           feels_like |-> Num(14), humidity |-> Num(65), weather |-> w] :
            w \in WeatherLists}
    \cup {[t |-> "obj", dt |-> None, temp |-> Absent, feels_like |-> None,
           humidity |-> Absent, weather |-> w] : w \in WeatherLists}

DayVariants == {"full", "bare", "nulltemp"}

\* the i-th entry of a raw "daily" list
RawDay(i, v) ==
    CASE v = "full" ->
           [t |-> "obj", dt |-> Num(i),
            temp |-> [t |-> "obj", min |-> Num(i), max |-> Num(i + 10),
                      day |-> Num(i + 5), night |-> Num(i + 1)],
            humidity |-> Num(60), pop |-> Num(1), rain |-> Num(2),
            weather |-> List(<<Rain, Clear>>)]
      [] v = "bare" ->
           [t |-> "obj", dt |-> Num(i), temp |-> Absent, humidity |-> Absent,
            pop |-> None, rain |-> Absent, weather |-> List(<<>>)]
      [] OTHER ->
           [t |-> "obj", dt |-> Num(i), temp |-> None, humidity |-> Num(60),
            pop |-> Num(1), rain |-> Num(2), weather |-> List(<<Clear>>)]

HourVariants == {"full", "bare"}

\* the i-th entry of a raw "hourly" list
RawHour(i, v) ==
    IF v = "full"
    THEN [t |-> "obj", dt |-> Num(i), temp |-> Num(i + 3), pop |-> Num(0),
          weather |-> List(<<Clear, Rain>>)]
    ELSE [t |-> "obj", dt |-> Num(i), temp |-> None, pop |-> Absent,
          weather |-> Absent]

DailyLengths == {0, 1} \cup ((DailyCap - 1)..MaxDaily)
HourlyLengths == {0, 1} \cup ((HourlyCap - 1)..MaxHourly)

RawDailies ==
    {Absent, None}
    \cup {List([i \in 1..n |-> RawDay(i, v)]) :
            n \in DailyLengths, v \in DayVariants}

RawHourlies ==
    {Absent, None}
    \cup {List([i \in 1..n |-> RawHour(i, v)]) :
            n \in HourlyLengths, v \in HourVariants}

RawTops ==
    {[lat |-> Num(40), lon |-> Num(-74), timezone |-> Str("America/New_York")],
     [lat |-> Absent, lon |-> None, timezone |-> Absent]}

RawPayloads ==
    {[t |-> "obj", lat |-> top.lat, lon |-> top.lon,
      timezone |-> top.timezone, current |-> c, daily |-> d, hourly |-> h] :
        top \in RawTops, c \in RawCurrents, d \in RawDailies,
        h \in RawHourlies}

(***************************************************************************)
(* The REST service (src/src/server.py): GET /weather and POST /weather.   *)
(* A request returns [status, detail, data, calls].                        *)
(***************************************************************************)
ServerResponse(status, detail, data, pcalls) ==
    [status |-> status, detail |-> detail, data |-> data, calls |-> pcalls]

\* Query(..., ge=, le=) of GET /weather and Field(..., ge=, le=) of
\* WeatherRequest: both coordinates required and in range
ServerArgsValid(latitude, longitude) ==
    /\ latitude.t = "num" /\ -LatMax <= latitude.n /\ latitude.n <= LatMax
    /\ longitude.t = "num" /\ -LonMax <= longitude.n /\ longitude.n <= LonMax

\* the One Call object the provider returns for a request that succeeds
ServerRaw(body) ==
    [t |-> "obj", lat |-> Num(body.lat), lon |-> Num(body.lon),
     timezone |-> Str("America/New_York"),
     current |-> [t |-> "obj", dt |-> Num(1699036800), temp |-> Num(15),
                  feels_like |-> Num(14), humidity |-> Num(65),
                  weather |-> List(<<Clear>>)],
     daily |-> Absent, hourly |-> Absent]

\* except ValueError -> 400 with str(e); except Exception -> 500
ServerFailure(e, pcalls) ==
    IF e.type = "ValueError"
    THEN ServerResponse(400, e.text, None, pcalls)
    ELSE ServerResponse(500, <<Str("Internal server error")>>, None, pcalls)

\* get_weather (formatted as given) and post_weather (always formatted)
ServerWeather(latitude, longitude, units, formatted, outcome) ==
    IF ~ServerArgsValid(latitude, longitude)
    THEN ServerResponse(422, <<Str("validation error")>>, None, <<>>)
    ELSE LET r == ServiceGetCurrentWeather(latitude.n, longitude.n, units,
                                           "en", outcome)
         IN  IF Raised(r.exc)
             THEN ServerFailure(r.exc, r.calls)
             ELSE LET raw_data == ServerRaw(r.ret)
                      data == IF formatted
                              THEN SvcFormatWeatherResponse(raw_data)
                              ELSE Returned(raw_data)
                  IN  IF Raised(data.exc)
                      THEN ServerFailure(data.exc, r.calls)
                      ELSE ServerResponse(200, None, data.ret, r.calls)

ServerLatitudes == {Absent, Num(-91), Num(45), Num(90)}
ServerLongitudes == {Absent, Num(-180), Num(0), Num(181)}

(***************************************************************************)
(* MCPWeatherWrapper (src/src/mcp_wrapper.py).  execute_tool returns       *)
(* [exc, ret, calls]; a str is a Text of tokens.                           *)
(***************************************************************************)
Bool(b) == [t |-> "bool", b |-> b]
Text(tokens) == [t |-> "text", tokens |-> tokens]

\* the tokens an f-string prints for a value
Fmt(v) == IF v.t = "text" THEN v.tokens ELSE <<v>>

\* a result dict of the wrapper; a member it does not hold is Absent
ToolCallResult(success, data, error) ==
    [t |-> "obj", success |-> success, data |-> data, error |-> error]

\* **parameters bound to (latitude, longitude, units="metric", lang="en"):
\* TypeError for a key that is no parameter or a required one that is missing
BindError(parameters) ==
    IF HasKey(parameters.extra)
    THEN Exc("TypeError", <<Str("got an unexpected keyword argument")>>)
    ELSE IF ~HasKey(parameters.latitude) \/ ~HasKey(parameters.longitude)
    THEN Exc("TypeError", <<Str("missing required positional argument")>>)
    ELSE NoExc

\* the except clause of _get_current_weather
WrapperFailure(e, made) ==
    [exc |-> NoExc, calls |-> made,
     ret |-> ToolCallResult(Bool(FALSE), Absent, Text(e.text))]

\* MCPWeatherWrapper._get_current_weather, its arguments bound
WrapperGetCurrentWeather(latitude, longitude, units, outcome) ==
    IF latitude.t # "num" \/ longitude.t # "num"
    THEN \* the range comparison of the service raises TypeError
         WrapperFailure(Exc("TypeError",
                            <<Str("'<=' not supported between instances")>>),
                        <<>>)
    ELSE LET r == ServiceGetCurrentWeather(latitude.n, longitude.n, units,
                                           "en", outcome)
         IN  IF Raised(r.exc)
             THEN WrapperFailure(r.exc, r.calls)
             ELSE LET formatted_data == SvcFormatWeatherResponse(ServerRaw(r.ret))
                  IN  IF Raised(formatted_data.exc)
                      THEN WrapperFailure(formatted_data.exc, r.calls)
                      ELSE [exc |-> NoExc, calls |-> r.calls,
                            ret |-> ToolCallResult(Bool(TRUE),
                                                   formatted_data.ret, Absent)]

\* ExecuteTool answering every name like get_current_weather
ExecuteToolAnyName(tool_name, parameters, outcome) ==
    LET bad == BindError(parameters) IN
    IF Raised(bad)
    THEN [exc |-> bad, ret |-> None, calls |-> <<>>]
    ELSE WrapperGetCurrentWeather(
             parameters.latitude, parameters.longitude,
             IF HasKey(parameters.units) THEN parameters.units.s ELSE "metric",
             outcome)

\* MCPWeatherWrapper.execute_tool
ExecuteTool(tool_name, parameters, outcome) ==
    IF tool_name = "get_current_weather"
    THEN LET bad == BindError(parameters) IN
         IF Raised(bad)
         THEN [exc |-> bad, ret |-> None, calls |-> <<>>]
         ELSE WrapperGetCurrentWeather(
                  parameters.latitude, parameters.longitude,
                  IF HasKey(parameters.units) THEN parameters.units.s
                  ELSE "metric",
                  outcome)
    ELSE [exc |-> NoExc, calls |-> <<>>,
          ret |-> ToolCallResult(Bool(FALSE), Absent,
                                 Text(<<Str("Unknown tool: "), Str(tool_name)>>))]

\* the {} defaults of create_llm_response
EmptyData == [t |-> "obj", location |-> Absent, current |-> Absent]
EmptyLocation == [t |-> "obj", latitude |-> Absent, longitude |-> Absent]
EmptyLlmCurrent ==
    [t |-> "obj", temperature |-> Absent, humidity |-> Absent,
     weather |-> Absent]
EmptyDescription == [t |-> "obj", description |-> Absent]

\* LlmConditions printing nothing for a missing description
LlmConditionsBlank(weather) ==
    <<Str("Conditions: ")>> \o Fmt(GetDefault(weather.description, Text(<<>>)))

\* f"Conditions: {weather.get('description', 'N/A')}"
LlmConditions(weather) ==
    <<Str("Conditions: ")>> \o Fmt(GetDefault(weather.description, Str("N/A")))

\* MCPWeatherWrapper.create_llm_response
CreateLlmResponse(weather_data) ==
    IF ~Truthy(Get(weather_data.success))
    THEN Returned(Text(<<Str("Error fetching weather data: ")>>
                       \o Fmt(GetDefault(weather_data.error,
                                         Str("Unknown error")))))
    ELSE
    LET data == GetDefault(weather_data.data, EmptyData) IN
    IF ~IsDict(data)
    THEN Failed(AttributeError)
    ELSE
    LET location == GetDefault(data.location, EmptyLocation)
        current == GetDefault(data.current, EmptyLlmCurrent)
    IN
    IF ~IsDict(location) \/ ~IsDict(current)
    THEN Failed(AttributeError)
    ELSE
    LET weather == GetDefault(current.weather, EmptyDescription) IN
    IF ~IsDict(weather)
    THEN Failed(AttributeError)
    ELSE Returned(Text(
            <<Str("Current weather for coordinates ("),
              Get(location.latitude), Str(", "), Get(location.longitude),
              Str("):"), Str("Temperature: "), Get(current.temperature)>>
            \o LlmConditions(weather)
            \o <<Str("Humidity: "), Get(current.humidity)>>))

WrapperToolNames == {"get_current_weather", "get_weather", "unknown_tool"}

WrapperParameters ==
    [latitude : {Absent, None, Num(-91), Num(45)},
     longitude : {Absent, Num(0), Num(181)},
     units : {Absent, Str("imperial")},
     extra : {Absent, Str("x")}]

\* execute_tool reaches requests.get of the weather service
WrapperReachesProvider(tool_name, parameters) ==
    /\ tool_name = "get_current_weather"
    /\ ~Raised(BindError(parameters))
    /\ parameters.latitude.t = "num" /\ LatInRange(parameters.latitude.n)
    /\ parameters.longitude.t = "num" /\ LonInRange(parameters.longitude.n)

WrapperOutcomesFor(tool_name, parameters) ==
    IF WrapperReachesProvider(tool_name, parameters)
    THEN ProviderOutcomes ELSE {"ok"}

LlmDescriptions ==
    {Absent, None, EmptyDescription,
     [t |-> "obj", description |-> Str("clear sky")]}

LlmCurrents ==
    {Absent, None}
    \cup {[t |-> "obj", temperature |-> tv, humidity |-> Num(65),
           weather |-> w] : tv \in {Absent, Num(15)}, w \in LlmDescriptions}

LlmLocations ==
    {Absent, [t |-> "obj", latitude |-> Num(40), longitude |-> Num(-74)]}

LlmDatas ==
    {Absent, None}
    \cup {[t |-> "obj", location |-> l, current |-> c] :
            l \in LlmLocations, c \in LlmCurrents}

\* the results create_llm_response is applied to
LlmResults ==
    {ToolCallResult(s, d, e) :
        s \in {Absent, Bool(FALSE), Bool(TRUE)}, d \in LlmDatas,
        e \in {Absent, Text(<<Str("API error")>>)}}

(***************************************************************************)
(* Actions.                                                                *)
(***************************************************************************)
Init ==
    /\ op = "init"
    /\ req = None
    /\ res = None
    /\ calls = <<>>
    /\ running = TRUE
    /\ message_id = Unbound
    /\ pc = "reading"
    /\ backend_state = "accepting"

\* run_mcp_stdio_server after server_thread.start(): the main thread is in
\* time.sleep(startup_wait) and uvicorn has not bound its port yet
InitStartup ==
    /\ op = "init"
    /\ req = None
    /\ res = None
    /\ calls = <<>>
    /\ running = TRUE
    /\ message_id = Unbound
    /\ pc = "sleeping"
    /\ backend_state = "starting"

\* time.sleep(startup_wait) returns and the main thread enters the read loop
StartupWaitOver ==
    /\ pc = "sleeping"
    /\ pc' = "reading"
    /\ UNCHANGED <<op, req, res, calls, running, message_id, backend_state>>

\* uvicorn.run, in the background thread, starts accepting connections
BackendAccepts ==
    /\ backend_state = "starting"
    /\ backend_state' = "accepting"
    /\ UNCHANGED <<op, req, res, calls, running, message_id, pc>>

\* the provider's answer to the request made, "none" when none was made
Answered(made, outcome) == IF made = <<>> THEN "none" ELSE outcome

\* a direct call of WeatherService.get_current_weather
CallServiceCurrent ==
    \E lat \in LatValues, lon \in LonValues, units \in Units,
       outcome \in ProviderOutcomes :
        LET r == ServiceGetCurrentWeather(lat, lon, units, "en", outcome) IN
        /\ op' = "svc_current"
        /\ req' = [lat |-> lat, lon |-> lon, units |-> units, lang |-> "en",
                   outcome |-> Answered(r.calls, outcome)]
        /\ res' = [exc |-> r.exc, ret |-> r.ret]
        /\ calls' = r.calls
        /\ UNCHANGED <<running, message_id, pc, backend_state>>

\* a direct call of WeatherService.get_forecast
CallServiceForecast ==
    \E lat \in LatValues, lon \in LonValues, units \in Units,
       outcome \in ProviderOutcomes :
        LET r == ServiceGetForecast(lat, lon, units, "en", outcome) IN
        /\ op' = "svc_forecast"
        /\ req' = [lat |-> lat, lon |-> lon, units |-> units, lang |-> "en",
                   outcome |-> Answered(r.calls, outcome)]
        /\ res' = [exc |-> r.exc, ret |-> r.ret]
        /\ calls' = r.calls
        /\ UNCHANGED <<running, message_id, pc, backend_state>>

\* the stdio server reads one line and handles it
StdioLine ==
    /\ running
    /\ pc = "reading"
    /\ \E line \in StdioLines :
        \E env \in EnvsAt(line, backend_state) :
            LET r == StdioIteration(line, env, message_id) IN
            /\ op' = "stdio_line"
            /\ req' = [line |-> line, env |-> env]
            /\ res' = [out |-> r.out]
            /\ calls' = r.calls
            /\ running' = r.alive
            /\ message_id' = r.message_id
            /\ UNCHANGED <<pc, backend_state>>

\* the stdio server reads EOF and leaves the loop
StdioEOF ==
    /\ running
    /\ pc = "reading"
    /\ op' = "stdio_eof"
    /\ req' = None
    /\ res' = [out |-> <<>>]
    /\ calls' = <<>>
    /\ running' = FALSE
    /\ UNCHANGED <<message_id, pc, backend_state>>

\* POST /mcp receives one request and answers it
McpHttpRequest ==
    \E request \in HttpRequests :
        \E env \in HttpEnvsFor(request) :
            LET r == McpEndpoint(request, env) IN
            /\ op' = "mcp_http"
            /\ req' = [request |-> request, env |-> env]
            /\ res' = [response |-> r.ret]
            /\ calls' = r.calls
            /\ UNCHANGED <<running, message_id, pc, backend_state>>

\* the formatters start from a raw provider object
InitFormat ==
    /\ op = "raw"
    /\ req \in RawPayloads
    /\ res = None
    /\ calls = <<>>
    /\ running = TRUE
    /\ message_id = Unbound
    /\ pc = "reading"
    /\ backend_state = "accepting"

\* OpenWeatherMapAPI.format_weather_data is applied to the raw object
FormatApiWeather ==
    /\ op = "raw"
    /\ op' = "api_weather"
    /\ res' = ApiFormatWeatherData(req)
    /\ UNCHANGED <<req, calls, running, message_id, pc, backend_state>>

\* OpenWeatherMapAPI.format_forecast_data is applied to the raw object
FormatApiForecast ==
    /\ op = "raw"
    /\ op' = "api_forecast"
    /\ res' = ApiFormatForecastData(req)
    /\ UNCHANGED <<req, calls, running, message_id, pc, backend_state>>

\* FormatSvcWeather popping 'current' from the raw object it formats
FormatSvcWeatherInPlace ==
    /\ op = "raw"
    /\ op' = "svc_weather"
    /\ res' = SvcFormatWeatherResponse(req)
    /\ req' = [req EXCEPT !.current = Absent]
    /\ UNCHANGED <<calls, running, message_id, pc, backend_state>>

\* WeatherService.format_weather_response is applied to the raw object
FormatSvcWeather ==
    /\ op = "raw"
    /\ op' = "svc_weather"
    /\ res' = SvcFormatWeatherResponse(req)
    /\ UNCHANGED <<req, calls, running, message_id, pc, backend_state>>

\* WeatherService.format_forecast_data is applied to the raw object
FormatSvcForecast ==
    /\ op = "raw"
    /\ op' = "svc_forecast_format"
    /\ res' = SvcFormatForecastData(req)
    /\ UNCHANGED <<req, calls, running, message_id, pc, backend_state>>

\* GET /weather of the REST service
ServerGetWeather ==
    \E latitude \in ServerLatitudes, longitude \in ServerLongitudes,
       units \in Units, formatted \in BOOLEAN, outcome \in ProviderOutcomes :
        LET r == ServerWeather(latitude, longitude, units, formatted, outcome) IN
        /\ op' = "server_get"
        /\ req' = [latitude |-> latitude, longitude |-> longitude,
                   units |-> units, formatted |-> formatted,
                   outcome |-> Answered(r.calls, outcome)]
        /\ res' = [status |-> r.status, detail |-> r.detail, data |-> r.data]
        /\ calls' = r.calls
        /\ UNCHANGED <<running, message_id, pc, backend_state>>

\* POST /weather of the REST service
ServerPostWeather ==
    \E latitude \in ServerLatitudes, longitude \in ServerLongitudes,
       units \in Units, outcome \in ProviderOutcomes :
        LET r == ServerWeather(latitude, longitude, units, TRUE, outcome) IN
        /\ op' = "server_post"
        /\ req' = [latitude |-> latitude, longitude |-> longitude,
                   units |-> units, formatted |-> TRUE,
                   outcome |-> Answered(r.calls, outcome)]
        /\ res' = [status |-> r.status, detail |-> r.detail, data |-> r.data]
        /\ calls' = r.calls
        /\ UNCHANGED <<running, message_id, pc, backend_state>>

\* POST /tools/call receives one ToolCall and answers it
DirectToolCallRequest ==
    \E name \in DirectToolNames, arguments \in DirectArguments :
        \E env \in DirectEnvsFor(name, arguments) :
            LET r == DirectToolCall(name, arguments, env) IN
            /\ op' = "direct_tool_call"
            /\ req' = [tool_call |-> [name |-> name, arguments |-> arguments],
                       env |-> env]
            /\ res' = [status |-> r.status, detail |-> r.detail,
                       body |-> r.body]
            /\ calls' = r.calls
            /\ UNCHANGED <<running, message_id, pc, backend_state>>

\* the stdio server from the start of its background thread on
NextStartup ==
    \/ StartupWaitOver
    \/ BackendAccepts
    \/ StdioLine
    \/ StdioEOF

\* the two endpoints of src/mcp_server_http.py that call tools
NextTools ==
    \/ McpHttpRequest
    \/ DirectToolCallRequest

\* a call of MCPWeatherWrapper.execute_tool
WrapperExecuteTool ==
    \E tool_name \in WrapperToolNames, parameters \in WrapperParameters :
        \E outcome \in WrapperOutcomesFor(tool_name, parameters) :
            LET r == ExecuteTool(tool_name, parameters, outcome) IN
            /\ op' = "execute_tool"
            /\ req' = [tool_name |-> tool_name, parameters |-> parameters,
                       outcome |-> Answered(r.calls, outcome)]
            /\ res' = [exc |-> r.exc, ret |-> r.ret]
            /\ calls' = r.calls
            /\ UNCHANGED <<running, message_id, pc, backend_state>>

\* a call of MCPWeatherWrapper.create_llm_response
WrapperCreateLlmResponse ==
    \E weather_data \in LlmResults :
        LET r == CreateLlmResponse(weather_data) IN
        /\ op' = "llm_response"
        /\ req' = [weather_data |-> weather_data]
        /\ res' = [exc |-> r.exc, ret |-> r.ret]
        /\ calls' = <<>>
        /\ UNCHANGED <<running, message_id, pc, backend_state>>

NextWrapper ==
    \/ WrapperExecuteTool
    \/ WrapperCreateLlmResponse

NextServer ==
    \/ ServerGetWeather
    \/ ServerPostWeather

NextFormat ==
    \/ FormatApiWeather
    \/ FormatApiForecast
    \/ FormatSvcWeather
    \/ FormatSvcForecast

NextService ==
    \/ CallServiceCurrent
    \/ CallServiceForecast

NextStdio ==
    \/ StdioLine
    \/ StdioEOF

NextHttp ==
    \/ McpHttpRequest

Next ==
    \/ NextService
    \/ NextStdio
    \/ NextHttp

Spec == Init /\ [][Next]_vars
SpecService == Init /\ [][NextService]_vars
SpecStdio == Init /\ [][NextStdio]_vars
SpecHttp == Init /\ [][NextHttp]_vars
SpecFormat == InitFormat /\ [][NextFormat]_vars
SpecServer == Init /\ [][NextServer]_vars
SpecWrapper == Init /\ [][NextWrapper]_vars
SpecTools == Init /\ [][NextTools]_vars
SpecStartup == InitStartup /\ [][NextStartup]_vars

(***************************************************************************)
(* Properties of WeatherService (checked under SpecService).               *)
(***************************************************************************)
IsServiceCall == op \in {"svc_current", "svc_forecast"}

\* C1: a latitude outside [-90, 90] or a longitude outside [-180, 180] makes
\* get_current_weather and get_forecast fail with ValueError ("Invalid
\* latitude" / "Invalid longitude") without any outbound request; in-range
\* coordinates reach the provider unchanged.
InvalidCoordinatesRejected ==
    IsServiceCall =>
        IF req.lat < -90 \/ req.lat > 90
        THEN /\ res.exc.type = "ValueError"
             /\ res.exc.text[1] = Str("Invalid latitude: ")
             /\ calls = <<>>
        ELSE IF req.lon < -180 \/ req.lon > 180
        THEN /\ res.exc.type = "ValueError"
             /\ res.exc.text[1] = Str("Invalid longitude: ")
             /\ calls = <<>>
        ELSE /\ Len(calls) = 1
             /\ calls[1].to = "provider"
             /\ calls[1].lat = req.lat
             /\ calls[1].lon = req.lon

\* C1 witness: a forecast call with an in-range latitude and a longitude of
\* 181 was rejected
InvalidLongitudeRejected ==
    /\ op = "svc_forecast"
    /\ req.lat = 45
    /\ req.lon = 181
    /\ res.exc.type = "ValueError"
    /\ calls = <<>>

(***************************************************************************)
(* Properties of the stdio server (checked under SpecStdio).               *)
(***************************************************************************)
\* the last step handled a line holding a JSON object
HandledMessage ==
    op = "stdio_line" /\ req.line.kind = "json" /\ IsDict(req.line.value)

Msg == req.line.value

\* the last step handled a tools/call whose params and arguments are objects
HandledToolCall ==
    /\ HandledMessage
    /\ Msg.method = Str("tools/call")
    /\ IsDict(Msg.params)
    /\ IsDict(Msg.params.arguments)

Args == Msg.params.arguments

OutOfRange(lat, lon) ==
    \/ lat.t = "num" /\ (lat.n < -90 \/ lat.n > 90)
    \/ lon.t = "num" /\ (lon.n < -180 \/ lon.n > 180)

KnownTool == Msg.params.name \in {Str("get_weather"), Str("get_forecast")}

AnsweredWithError ==
    /\ Len(res.out) = 1
    /\ HasKey(res.out[1].error)
    /\ ~HasKey(res.out[1].result)

NoProviderCall == \A i \in DOMAIN calls : calls[i].to # "provider"

\* C2 as stated: a tools/call with a coordinate out of range is answered with
\* an error before any network call (call_http_endpoint is not invoked)
OutOfRangeRejectedBeforeAnyCall ==
    (HandledToolCall /\ OutOfRange(Args.latitude, Args.longitude)) =>
        AnsweredWithError /\ calls = <<>>

\* C2 amended: a tools/call with a coordinate out of range is answered with
\* an error and the provider is never contacted; call_http_endpoint is
\* invoked (once) exactly when both coordinates are present and the tool is
\* get_weather or get_forecast
OutOfRangeNeverReachesProvider ==
    (HandledToolCall /\ OutOfRange(Args.latitude, Args.longitude)) =>
        /\ AnsweredWithError
        /\ NoProviderCall
        /\ IF KnownTool /\ Args.latitude.t = "num" /\ Args.longitude.t = "num"
           THEN Len(calls) = 1 /\ calls[1].to = "backend"
           ELSE calls = <<>>

\* C2 witness: get_weather with latitude 91 went to a running backend and was
\* answered with an error
OutOfRangeForwardedToBackend ==
    /\ HandledToolCall
    /\ KnownTool
    /\ Args.latitude = Num(91)
    /\ Args.longitude = Num(180)
    /\ req.env.backend = "up"
    /\ req.env.client
    /\ req.env.provider = "ok"
    /\ Len(calls) = 1
    /\ AnsweredWithError

\* C3: a request with a non-null id and a method other than initialize,
\* tools/list and tools/call is answered with error -32601, the request's
\* id and no result, without any network call
UnknownMethodNotFound ==
    (/\ HandledMessage
     /\ Get(Msg.id).t = "num"
     /\ Msg.method \notin {Str("initialize"), Str("tools/list"),
                           Str("tools/call")}) =>
        /\ Len(res.out) = 1
        /\ res.out[1].id = Msg.id
        /\ HasKey(res.out[1].error)
        /\ res.out[1].error.code = -32601
        /\ ~HasKey(res.out[1].result)
        /\ calls = <<>>

\* C3 witness: the request {id: 2, method: "ping"} was answered
UnknownMethodAnswered ==
    /\ HandledMessage
    /\ Msg.id = Num(2)
    /\ Msg.method = Str("ping")
    /\ Len(res.out) = 1

\* C4: a message without an id, whatever its method, gets no response
NotificationGetsNoResponse ==
    (HandledMessage /\ ~HasKey(Msg.id)) => res.out = <<>>

\* C5: a non-blank line that is not valid JSON gets exactly one response,
\* with error -32700 and id null, there is no network call, and the loop
\* goes on
ParseErrorAnswered ==
    (op = "stdio_line" /\ req.line.kind = "garbage") =>
        /\ Len(res.out) = 1
        /\ res.out[1].id = None
        /\ HasKey(res.out[1].error)
        /\ res.out[1].error.code = -32700
        /\ res.out[1].error.message = <<Str("Parse error")>>
        /\ ~HasKey(res.out[1].result)
        /\ calls = <<>>
        /\ running
        /\ ENABLED StdioLine

\* C5 witness: an invalid line was read and answered
ParseErrorSeen ==
    /\ op = "stdio_line"
    /\ req.line.kind = "garbage"
    /\ Len(res.out) = 1
    /\ running

\* the backend request of the last tools/call cannot succeed
BackendFails ==
    \/ req.env.backend = "down"
    \/ ~req.env.client
    \/ req.env.provider # "ok"
    \/ OutOfRange(Args.latitude, Args.longitude)

\* the last tools/call failed for an internal reason
InternalFailure ==
    /\ HandledMessage
    /\ Msg.method = Str("tools/call")
    /\ \/ ~IsDict(GetDefault(Msg.params, [t |-> "obj"]))
       \/ ~HasKey(Msg.params)
       \/ ~IsDict(GetDefault(Msg.params.arguments, [t |-> "obj"]))
       \/ ~HasKey(Msg.params.arguments)
       \/ IsNone(Get(Args.latitude))
       \/ IsNone(Get(Args.longitude))
       \/ KnownTool /\ BackendFails

\* the last tools/call lacks a latitude or a longitude
CoordinateMissing ==
    /\ HandledMessage
    /\ Msg.method = Str("tools/call")
    /\ \/ ~HasKey(Msg.params)
       \/ /\ IsDict(Msg.params)
          /\ \/ ~HasKey(Msg.params.arguments)
             \/ /\ IsDict(Msg.params.arguments)
                /\ IsNone(Get(Args.latitude)) \/ IsNone(Get(Args.longitude))

\* C8: a tools/call with a non-null id that fails for an internal reason gets
\* exactly one response, with error -32603, the request's id and no result;
\* with a coordinate missing no HTTP call is made
InternalFailureAnswered ==
    (InternalFailure /\ Get(Msg.id).t = "num") =>
        /\ Len(res.out) = 1
        /\ res.out[1].id = Msg.id
        /\ HasKey(res.out[1].error)
        /\ res.out[1].error.code = -32603
        /\ ~HasKey(res.out[1].result)
        /\ CoordinateMissing => calls = <<>>

\* C8 witness: a get_forecast call with id 2 met a backend that is down
BackendDownAnswered ==
    /\ HandledToolCall
    /\ Msg.id = Num(2)
    /\ Msg.params.name = Str("get_forecast")
    /\ req.env.backend = "down"
    /\ Len(calls) = 1
    /\ Len(res.out) = 1

\* C9: the -32603 message describes the failure: it says that latitude and
\* longitude are required when one is missing, and holds the detail text of
\* the backend failure when the HTTP call fails
InternalErrorMessageDescriptive ==
    /\ (CoordinateMissing /\ Len(res.out) = 1) =>
           Contains(res.out[1].error.message,
                    Str("latitude and longitude are required"))
    /\ (/\ HandledToolCall
        /\ KnownTool
        /\ Len(calls) >= 1
        /\ req.env.backend = "down") =>
           Contains(res.out[1].error.message, Str("Connection refused"))

(***************************************************************************)
(* Properties of POST /mcp (checked under SpecHttp).                       *)
(***************************************************************************)
HandledHttp == op = "mcp_http"

\* C6: POST /mcp answers a request whose method is not supported with the
\* JSON-RPC error -32601 and the request's id
HttpUnknownMethodNotFound ==
    (/\ HandledHttp
     /\ req.request.method \notin {"initialize", "tools/list", "tools/call",
                                   "resources/list", "prompts/list"}) =>
        /\ res.response.id = req.request.id
        /\ res.response.error # None
        /\ res.response.error.code = -32601

\* C7: initialize is answered with a successful result, the static
\* capability descriptor, by the stdio dispatcher and by POST /mcp alike
InitializeSucceeds ==
    /\ (HandledMessage /\ Msg.method = Str("initialize")) =>
           /\ Len(res.out) = 1
           /\ ~HasKey(res.out[1].error)
           /\ res.out[1].result = InitializeResult
    /\ (HandledHttp /\ req.request.method = "initialize") =>
           /\ res.response.error = None
           /\ res.response.result # None

\* the last request was a get_current_weather call with a non-empty location
\* string that the geocoding service could not resolve
UnresolvedLocation ==
    /\ HandledHttp
    /\ req.request.method = "tools/call"
    /\ req.request.params.name = Str("get_current_weather")
    /\ IsDict(req.request.params.arguments)
    /\ req.request.params.arguments.location.t = "str"
    /\ req.request.params.arguments.location.s # ""
    /\ req.env.geo = "empty"

\* C10: a get_current_weather call on POST /mcp whose location the geocoding
\* lookup cannot resolve is answered with an error that names the location,
\* and the weather provider call is never made
UnresolvedLocationRejected ==
    UnresolvedLocation =>
        /\ res.response.id = req.request.id
        /\ res.response.result = None
        /\ res.response.error # None
        /\ Contains(res.response.error.message,
                    req.request.params.arguments.location)
        /\ Len(calls) = 1
        /\ calls[1].to = "geocode"

\* C10 witness: the location "Nowhere12345XYZ" was looked up and not found
UnresolvedLocationSeen ==
    /\ UnresolvedLocation
    /\ req.request.params.arguments.location = Str("Nowhere12345XYZ")
    /\ calls = <<GeocodeCall(Str("Nowhere12345XYZ"))>>
    /\ res.response.error # None

(***************************************************************************)
(* Claims about the formatters (SpecFormat).                               *)
(***************************************************************************)
FormatOps == {"api_weather", "api_forecast", "svc_weather", "svc_forecast_format"}

\* the entries of a raw list, none when the key is missing
RawItems(v) == IF IsList(v) THEN v.items ELSE <<>>

\* the raw "current" object as the formatters read it
RawCurrent == GetDefault(req.current, EmptyCurrent)

\* a "weather" list that is absent or empty
WeatherMissing(w) == w = Absent \/ (IsList(w) /\ Len(w.items) = 0)

\* a "weather" list with at least one element
WeatherPresent(w) == IsList(w) /\ Len(w.items) > 0

ApiForecastReturned == op = "api_forecast" /\ ~Raised(res.exc)

\* C11: OpenWeatherMapAPI.format_forecast_data returns min(len, 8) daily and
\* min(len, 48) hourly entries, and output entry i is derived from input
\* entry i, so the output is the prefix of the input in source order
ApiForecastIsCappedPrefix ==
    ApiForecastReturned =>
        /\ Len(res.ret.daily) = Min(Len(RawItems(req.daily)), DailyCap)
        /\ Len(res.ret.hourly) = Min(Len(RawItems(req.hourly)), HourlyCap)
        /\ \A i \in DOMAIN res.ret.daily :
              res.ret.daily[i].dt = req.daily.items[i].dt
        /\ \A i \in DOMAIN res.ret.hourly :
              res.ret.hourly[i].dt = req.hourly.items[i].dt

\* C11 witness: a forecast with more than 8 days and more than 48 hours was
\* formatted and cut to 8 and 48 entries
ApiForecastTruncated ==
    /\ ApiForecastReturned
    /\ Len(RawItems(req.daily)) > DailyCap
    /\ Len(RawItems(req.hourly)) > HourlyCap
    /\ Len(res.ret.daily) = DailyCap
    /\ Len(res.ret.hourly) = HourlyCap

\* C12: WeatherService.format_forecast_data returns at most 8 daily and at
\* most 48 hourly entries
SvcForecastIsCapped ==
    (op = "svc_forecast_format" /\ ~Raised(res.exc)) =>
        /\ Len(res.ret.daily) <= DailyCap
        /\ Len(res.ret.hourly) <= HourlyCap

\* the formatted weather fields of an API entry follow the raw weather list
ApiWeatherFollows(out, w) ==
    /\ WeatherMissing(w) =>
          out.weather = Str("N/A") /\ out.weather_main = Str("N/A")
    /\ WeatherPresent(w) =>
          /\ out.weather = w.items[1].description
          /\ out.weather_main = w.items[1].main

\* the weather member of a service entry follows the raw weather list
SvcWeatherFollows(out, w) ==
    /\ WeatherMissing(w) => out = EmptyWeather
    /\ WeatherPresent(w) => out = w.items[1]

\* C13: an empty or absent weather list never makes a formatter raise: the
\* API formatters give weather 'N/A' and weather_main 'N/A', the service
\* formatter gives the empty placeholder; of a non-empty list only the first
\* element is used
WeatherListHandled ==
    /\ (op = "api_weather" /\ IsDict(RawCurrent)) =>
          /\ ~Raised(res.exc)
          /\ ApiWeatherFollows(res.ret, RawCurrent.weather)
    /\ ApiForecastReturned =>
          /\ ApiWeatherFollows(res.ret.current, RawCurrent.weather)
          /\ \A i \in DOMAIN res.ret.daily :
                ApiWeatherFollows(res.ret.daily[i], req.daily.items[i].weather)
          /\ \A i \in DOMAIN res.ret.hourly :
                ApiWeatherFollows(res.ret.hourly[i], req.hourly.items[i].weather)
    /\ (op = "svc_weather" /\ IsDict(RawCurrent)) =>
          /\ ~Raised(res.exc)
          /\ SvcWeatherFollows(res.ret.current.weather, RawCurrent.weather)

\* C13 witness: current weather with an empty list was formatted to 'N/A'
\* next to daily entries whose two-element lists gave their first element
EmptyWeatherListFormatted ==
    /\ ApiForecastReturned
    /\ req.current # Absent
    /\ RawCurrent.weather = List(<<>>)
    /\ res.ret.current.weather = Str("N/A")
    /\ Len(res.ret.daily) > 0
    /\ req.daily.items[1].weather = List(<<Rain, Clear>>)
    /\ res.ret.daily[1].weather_main = Str("Rain")

\* C14: whichever provider field is absent or null, the formatters return
\* null or placeholder values and never raise
FormattersNeverRaise ==
    op \in FormatOps => ~Raised(res.exc)

\* C15: format_weather_response maps lat, lon and timezone to the location,
\* current.temp to temperature, current.humidity to humidity and the first
\* element of current.weather to the weather; the example payload gives the
\* description 'clear sky'
WeatherResponseMapped ==
    (op = "svc_weather" /\ IsDict(RawCurrent)) =>
        /\ ~Raised(res.exc)
        /\ res.ret.location.latitude = Get(req.lat)
        /\ res.ret.location.longitude = Get(req.lon)
        /\ res.ret.location.timezone = Get(req.timezone)
        /\ res.ret.current.temperature = Get(RawCurrent.temp)
        /\ res.ret.current.humidity = Get(RawCurrent.humidity)
        /\ WeatherPresent(RawCurrent.weather) =>
              res.ret.current.weather = RawCurrent.weather.items[1]
        /\ (req.current # Absent /\ RawCurrent.weather = List(<<Clear>>)) =>
              res.ret.current.weather.description = Str("clear sky")

\* C15 witness: the example payload (40, -74, America/New_York, 15 degrees,
\* humidity 65, clear sky) was formatted
ExamplePayloadFormatted ==
    /\ op = "svc_weather"
    /\ req.lat = Num(40)
    /\ req.lon = Num(-74)
    /\ IsDict(req.current)
    /\ ~Raised(res.exc)
    /\ RawCurrent.temp = Num(15)
    /\ RawCurrent.weather = List(<<Clear>>)
    /\ res.ret.location.latitude = Num(40)
    /\ res.ret.current.temperature = Num(15)
    /\ res.ret.current.weather.description = Str("clear sky")

(***************************************************************************)
(* Claims about the provider failures seen by WeatherService (SpecService). *)
(***************************************************************************)
\* the service made its request to the provider
ServiceAsked == IsServiceCall /\ req.outcome # "none"

\* C16: a provider response of status 401 whose raise_for_status fails, be it
\* with an HTTPError or, as in test_api_key_error, with a generic exception,
\* gives ValueError('Invalid API key'); status 404 gives
\* ValueError('Location not found'); any other failure is propagated as it is
ProviderStatusTranslated ==
    ServiceAsked =>
        /\ req.outcome \in {"http401", "mock401"} =>
              res.exc = Exc("ValueError", <<Str("Invalid API key")>>)
        /\ req.outcome = "http404" =>
              res.exc = Exc("ValueError", <<Str("Location not found")>>)
        /\ req.outcome = "http500" =>
              res.exc = Exc("HTTPError", <<Str("500 Server Error")>>)
        /\ req.outcome = "timeout" =>
              res.exc = Exc("Timeout", <<Str("Read timed out")>>)

(***************************************************************************)
(* Claims about the REST service (SpecServer).                             *)
(***************************************************************************)
IsServerCall == op \in {"server_get", "server_post"}

\* the provider was asked and did not answer with a body
UpstreamFailed == req.outcome \notin {"none", "ok"}

\* C17: GET /weather and POST /weather surface every upstream failure, the
\* provider's 401 and 404 included, with a 5xx status, and answer 4xx only
\* when the arguments are invalid
UpstreamFailureIs5xx ==
    IsServerCall =>
        /\ UpstreamFailed => res.status >= 500
        /\ (res.status >= 400 /\ res.status < 500) =>
              ~ServerArgsValid(req.latitude, req.longitude)

(***************************************************************************)
(* Claims about the outbound calls and the result of tools/call            *)
(* (SpecStdio).                                                            *)
(***************************************************************************)
\* the outbound requests of the last step that went to the given service
CallsTo(service) == {i \in DOMAIN calls : calls[i].to = service}

\* the provider was asked and its call failed
ProviderFailed ==
    /\ op = "stdio_line"
    /\ CallsTo("provider") # {}
    /\ req.env.provider # "ok"

\* C18: a request causes at most one call to the One Call API (and at most
\* one to the backend); a provider call that fails or times out is not
\* issued again, and the request ends with an error response that carries
\* no result
SingleCallNoRetry ==
    op = "stdio_line" =>
        /\ Cardinality(CallsTo("provider")) <= 1
        /\ Cardinality(CallsTo("backend")) <= 1
        /\ ProviderFailed =>
              /\ Len(calls) = 2
              /\ AnsweredWithError

\* C18 witness: get_forecast reached the provider, whose call timed out once,
\* and was answered with an error
ProviderTimeoutAnswered ==
    /\ HandledToolCall
    /\ Msg.params.name = Str("get_forecast")
    /\ req.env.provider = "timeout"
    /\ Cardinality(CallsTo("provider")) = 1
    /\ AnsweredWithError

\* the last tools/call named a known tool with both coordinates and its
\* backend call succeeded
ToolCallSucceeds ==
    /\ HandledToolCall
    /\ KnownTool
    /\ Args.latitude.t = "num"
    /\ Args.longitude.t = "num"
    /\ ~OutOfRange(Args.latitude, Args.longitude)
    /\ req.env.backend = "up"
    /\ req.env.client
    /\ req.env.provider = "ok"

\* the body the backend answers to the last tools/call
BackendBody ==
    BackendEndpoint(IF Msg.params.name = Str("get_weather")
                    THEN "/weather" ELSE "/forecast",
                    Args.latitude, Args.longitude, req.env).body

\* C19: a successful tools/call is answered with jsonrpc '2.0', the request's
\* id, no error member and a result whose content is one element of type
\* 'text', its text being the JSON serialization of the backend's response
\* unchanged
ToolResultWrapsBackendResponse ==
    ToolCallSucceeds =>
        /\ Len(res.out) = 1
        /\ res.out[1].jsonrpc = "2.0"
        /\ res.out[1].id = Get(Msg.id)
        /\ ~HasKey(res.out[1].error)
        /\ Len(res.out[1].result.content) = 1
        /\ res.out[1].result.content[1].type = "text"
        /\ res.out[1].result.content[1].text = Dumps(BackendBody)

\* C19 witness: get_weather for (90, 180) with id 1 succeeded and the text is
\* the serialized {status: success, data: ...} of the backend
ToolCallSucceeded ==
    /\ ToolCallSucceeds
    /\ Msg.params.name = Str("get_weather")
    /\ Msg.id = Num(1)
    /\ Len(calls) = 2
    /\ res.out[1].result.content[1].text.of.status = "success"

(***************************************************************************)
(* Claims about the independence of requests (SpecStdio).                  *)
(***************************************************************************)
\* what the stdio server does with the last line when it is the first line
\* it reads
FirstLineOutcome == StdioIteration(req.line, req.env, Unbound)

\* C20: requests are independent: whatever was processed before, the
\* response to a request is the one the request gets when nothing was
\* processed before it, and the server goes on serving
ResponseIndependentOfHistory ==
    op = "stdio_line" =>
        /\ res.out = FirstLineOutcome.out
        /\ running = FirstLineOutcome.alive

(***************************************************************************)
(* Claims about MCPWeatherWrapper (SpecWrapper).                           *)
(***************************************************************************)
IsExecuteTool == op = "execute_tool"

\* C21: execute_tool with a tool name other than get_current_weather returns
\* success False and an error naming 'Unknown tool' and the tool, whatever
\* the parameters, and does not call the weather service
UnknownToolRefused ==
    (IsExecuteTool /\ req.tool_name # "get_current_weather") =>
        /\ ~Raised(res.exc)
        /\ res.ret.success = Bool(FALSE)
        /\ ~HasKey(res.ret.data)
        /\ res.ret.error.t = "text"
        /\ Contains(res.ret.error.tokens, Str("Unknown tool: "))
        /\ Contains(res.ret.error.tokens, Str(req.tool_name))
        /\ calls = <<>>

\* C21 witness: unknown_tool was executed with valid coordinates and an
\* unexpected key, and refused
UnknownToolSeen ==
    /\ IsExecuteTool
    /\ req.tool_name = "unknown_tool"
    /\ req.parameters.latitude = Num(45)
    /\ req.parameters.longitude = Num(0)
    /\ HasKey(req.parameters.extra)
    /\ res.ret.success = Bool(FALSE)

\* C22: execute_tool never raises and returns either success True with data
\* and no error, or success False with an error and no data, also when a
\* coordinate is missing, when an unexpected key is present and when the
\* weather service raises
ExecuteToolAlwaysReturnsResult ==
    IsExecuteTool =>
        /\ ~Raised(res.exc)
        /\ \/ /\ res.ret.success = Bool(TRUE)
              /\ HasKey(res.ret.data)
              /\ ~HasKey(res.ret.error)
           \/ /\ res.ret.success = Bool(FALSE)
              /\ HasKey(res.ret.error)
              /\ ~HasKey(res.ret.data)

IsLlmResponse == op = "llm_response"

\* a value that is a dict or missing
DictOrAbsent(v) == v = Absent \/ IsDict(v)

LlmData == GetDefault(req.weather_data.data, EmptyData)
LlmLocation == GetDefault(LlmData.location, EmptyLocation)
LlmCurrent == GetDefault(LlmData.current, EmptyLlmCurrent)
LlmWeather == GetDefault(LlmCurrent.weather, EmptyDescription)

\* the result is successful and each of its data members is a dict or missing
LlmSuccessful ==
    /\ IsLlmResponse
    /\ Truthy(Get(req.weather_data.success))
    /\ DictOrAbsent(req.weather_data.data)
    /\ DictOrAbsent(LlmData.location)
    /\ DictOrAbsent(LlmData.current)
    /\ DictOrAbsent(LlmCurrent.weather)

\* C23: create_llm_response gives, for a result whose success is false or
\* absent, 'Error fetching weather data: ' and the error message ('Unknown
\* error' without one); for a successful result a text with the latitude,
\* the temperature and the description ('N/A' without one); it does not
\* raise when data members are missing
LlmResponseText ==
    /\ (IsLlmResponse /\ ~Truthy(Get(req.weather_data.success))) =>
          /\ ~Raised(res.exc)
          /\ res.ret =
                Text(<<Str("Error fetching weather data: ")>>
                     \o (IF HasKey(req.weather_data.error)
                         THEN req.weather_data.error.tokens
                         ELSE <<Str("Unknown error")>>))
    /\ LlmSuccessful =>
          /\ ~Raised(res.exc)
          /\ Contains(res.ret.tokens, Get(LlmLocation.latitude))
          /\ Contains(res.ret.tokens, Get(LlmCurrent.temperature))
          /\ Contains(res.ret.tokens,
                      GetDefault(LlmWeather.description, Str("N/A")))

\* C23 witness: a successful result for (40, -74) at 15 degrees whose weather
\* has no description was rendered with 'N/A'
LlmResponseWithoutDescription ==
    /\ LlmSuccessful
    /\ HasKey(req.weather_data.data)
    /\ HasKey(LlmData.location)
    /\ LlmCurrent.temperature = Num(15)
    /\ LlmCurrent.weather = EmptyDescription
    /\ Contains(res.ret.tokens, Num(40))
    /\ Contains(res.ret.tokens, Str("N/A"))

(***************************************************************************)
(* Claims about the resolution of coordinates on POST /mcp and             *)
(* POST /tools/call (SpecTools).                                           *)
(***************************************************************************)
\* the last request was a get_current_weather call whose arguments are an
\* object, on either endpoint
IsWeatherToolCall ==
    \/ /\ op = "mcp_http"
       /\ req.request.method = "tools/call"
       /\ req.request.params.name = Str("get_current_weather")
       /\ IsDict(req.request.params.arguments)
    \/ /\ op = "direct_tool_call"
       /\ req.tool_call.name = Str("get_current_weather")

ToolArgs ==
    IF op = "mcp_http" THEN req.request.params.arguments
    ELSE req.tool_call.arguments

\* the last request was answered with an error
ToolCallFailed ==
    IF op = "mcp_http" THEN res.response.error # None ELSE res.status # 200

HasLocation == HasKey(ToolArgs.location) /\ Truthy(ToolArgs.location)

HasBothCoordinates == HasKey(ToolArgs.latitude) /\ HasKey(ToolArgs.longitude)

\* every call after the first k went to the provider with these coordinates
ProviderCallsUse(k, lat, lon) ==
    \A i \in DOMAIN calls :
        i > k => /\ calls[i].to = "provider"
                 /\ calls[i].lat = lat
                 /\ calls[i].lon = lon

\* C24: with a non-empty location the geocoding lookup comes first and the
\* weather call uses exactly the geocoded coordinates, whatever latitude
\* and longitude were supplied; without a location and with both
\* coordinates no geocoding call is made and the supplied coordinates are
\* used; with neither the request fails without any outbound call
CoordinatesResolvedByPrecedence ==
    IsWeatherToolCall =>
        /\ HasLocation =>
              /\ Len(calls) >= 1
              /\ calls[1] = GeocodeCall(ToolArgs.location)
              /\ ProviderCallsUse(1, GeoFound.lat, GeoFound.lon)
              /\ Len(calls) = IF req.env.geo = "found" THEN 2 ELSE 1
        /\ (~HasLocation /\ HasBothCoordinates) =>
              /\ IF ToolArgs.latitude.t = "num" /\ ToolArgs.longitude.t = "num"
                 THEN /\ ProviderCallsUse(0, ToolArgs.latitude.n,
                                          ToolArgs.longitude.n)
                      /\ Len(calls) =
                            IF LatInRange(ToolArgs.latitude.n)
                               /\ LonInRange(ToolArgs.longitude.n)
                            THEN 1 ELSE 0
                 ELSE calls = <<>>
        /\ (~HasLocation /\ ~HasBothCoordinates) =>
              ToolCallFailed /\ calls = <<>>

\* C24 witness: POST /tools/call with location Vienna and the coordinates
\* (45, 0) looked Vienna up and asked the provider for the geocoded place
GeocodedCoordinatesUsed ==
    /\ op = "direct_tool_call"
    /\ IsWeatherToolCall
    /\ ToolArgs.location = Str("Vienna")
    /\ ToolArgs.latitude = Num(45)
    /\ ToolArgs.longitude = Num(0)
    /\ Len(calls) = 2
    /\ calls[1] = GeocodeCall(Str("Vienna"))
    /\ calls[2].lat = GeoFound.lat
    /\ ~ToolCallFailed

(***************************************************************************)
(* Claims about the routing of tools/call (SpecStdio).                     *)
(***************************************************************************)
\* the last tools/call named a known tool and gave two numbers
RoutedToolCall ==
    /\ HandledToolCall
    /\ KnownTool
    /\ Args.latitude.t = "num"
    /\ Args.longitude.t = "num"

\* the endpoint the tool of the last tools/call stands for
IntendedEndpoint ==
    IF Msg.params.name = Str("get_weather") THEN "/weather" ELSE "/forecast"

\* C25: endpoint and formatter follow the request's intent only:
\* get_weather goes to /weather and to nothing else, get_forecast to
\* /forecast, and the data returned was formatted by the endpoint's own
\* formatter whether or not the provider's body holds 'hourly' and 'daily'
RoutedByIntent ==
    RoutedToolCall =>
        /\ CallsTo("backend") = {1}
        /\ calls[1] = BackendCall(IntendedEndpoint, Args.latitude,
                                  Args.longitude)
        /\ ~AnsweredWithError =>
              /\ Len(res.out) = 1
              /\ res.out[1].result.content[1].text.of.data.format
                    = IntendedEndpoint

\* C25 witness: get_weather succeeded although the provider's body held
\* 'hourly' and 'daily', and the current-weather formatter was applied
WeatherFormattedDespiteForecastKeys ==
    /\ RoutedToolCall
    /\ Msg.params.name = Str("get_weather")
    /\ req.env.keys = "other"
    /\ ~AnsweredWithError
    /\ res.out[1].result.content[1].text.of.data.raw.exclude = ""
    /\ res.out[1].result.content[1].text.of.data.format = "/weather"

\* a coordinate of the last tools/call is missing or null
CoordinateAbsent ==
    IsNone(Get(Args.latitude)) \/ IsNone(Get(Args.longitude))

\* the single response of the last step is an error with this code
AnsweredWithCode(code) ==
    /\ AnsweredWithError
    /\ res.out[1].error.code = code

\* C26: handle_tool_call tests the presence of the coordinates before the
\* tool name: an unknown tool with both coordinates gets -32601 'Unknown
\* tool' and no HTTP call, and a call lacking a coordinate gets -32603
\* whatever the tool name
PresenceCheckedBeforeToolName ==
    HandledToolCall =>
        /\ (~KnownTool /\ ~CoordinateAbsent) =>
              /\ AnsweredWithCode(MethodNotFound)
              /\ Contains(res.out[1].error.message, Str("Unknown tool: "))
              /\ calls = <<>>
        /\ CoordinateAbsent =>
              /\ AnsweredWithCode(InternalError)
              /\ calls = <<>>

\* C26 witness: the unknown tool 'bogus' called without a latitude was
\* answered -32603
UnknownToolWithoutLatitude ==
    /\ HandledToolCall
    /\ Msg.params.name = Str("bogus")
    /\ ~HasKey(Args.latitude)
    /\ Args.longitude.t = "num"
    /\ AnsweredWithCode(InternalError)

(***************************************************************************)
(* Claims about the read loop of the stdio server (SpecStdio).             *)
(***************************************************************************)
\* C27: the stdio server handles its lines one after the other: a request
\* with a non-null id gets exactly one response line, a blank line gets
\* none, no line stops the loop whatever happens while it is handled, and
\* EOF ends the loop
LinesHandledInSequence ==
    /\ op = "stdio_line" =>
          /\ running
          /\ req.line.kind = "blank" => res.out = <<>>
          /\ (HandledMessage /\ ~IsNone(Get(Msg.id))) => Len(res.out) = 1
    /\ op = "stdio_eof" => ~running

(***************************************************************************)
(* Claims about the start of the backend in stdio mode (SpecStartup).      *)
(***************************************************************************)
\* C28: the main thread forwards no tools/call to the backend before the
\* background thread accepts connections, so that a tools/call read as the
\* first line does not fail for a backend that is not ready
NoCallBeforeBackendAccepts ==
    (op = "stdio_line" /\ ReachesBackend(req.line)) =>
        backend_state = "accepting"

(***************************************************************************)
(* Claims about the purity of the formatters (SpecFormat).                 *)
(***************************************************************************)
\* what the formatter named by o returns for the raw object
FormatResult(o, raw) ==
    CASE o = "api_weather" -> ApiFormatWeatherData(raw)
      [] o = "api_forecast" -> ApiFormatForecastData(raw)
      [] o = "svc_weather" -> SvcFormatWeatherResponse(raw)
      [] OTHER -> SvcFormatForecastData(raw)

Handled == HandleMcpMessage(Msg, req.env)

\* handle_mcp_message returned a response for the last message
ResponseReturned ==
    /\ HandledMessage
    /\ ~Raised(Handled.exc)
    /\ ~IsNone(Handled.ret)

\* C30: a response returned by handle_mcp_message or handle_tool_call has
\* jsonrpc '2.0', the id of the request it answers and exactly one of
\* result and error; an error has a code in {-32601, -32603} and a message
ResponseWellFormed ==
    ResponseReturned =>
        /\ res.out = <<Handled.ret>>
        /\ res.out[1].jsonrpc = "2.0"
        /\ res.out[1].id = Get(Msg.id)
        /\ HasKey(res.out[1].result) # HasKey(res.out[1].error)
        /\ HasKey(res.out[1].error) =>
              /\ res.out[1].error.code \in {MethodNotFound, InternalError}
              /\ Len(res.out[1].error.message) > 0

\* C30 witness: a tools/call with id 2 that failed in the backend was
\* answered with the id 2 and an error -32603 without a result
ErrorResponseReturned ==
    /\ ResponseReturned
    /\ HandledToolCall
    /\ KnownTool
    /\ Msg.id = Num(2)
    /\ req.env.backend = "down"
    /\ res.out[1].id = Num(2)
    /\ res.out[1].error.code = InternalError
    /\ ~HasKey(res.out[1].result)

====
